---------------------------- MODULE Spec2Model ----------------------------
(***************************************************************************)
(* A model of tradekit: the composite scoring engine, pivot points and     *)
(* level clustering, the screener's filter chain, the ranking loop and the *)
(* pre-market scan with the scan command's overrides.                      *)
(*                                                                         *)
(* Arguments and rounded results are decimal numbers, held as integers.    *)
(* Each definition states its unit: sub-scores are whole points, totals    *)
(* are tenths of a point, weights are hundredths, prices are cents,        *)
(* relative volume is tenths.  Between the arguments and the rounding the  *)
(* code computes with floats; the model computes with the same floats      *)
(* (binary64, every operation rounded to nearest, ties to even), so that   *)
(* a sum, a quotient or a comparison comes out as it does in the code.     *)
(***************************************************************************)
EXTENDS Integers, Sequences, FiniteSets, TLC

VARIABLES
    row,            \* scoring: the indicator row (column -> cell)
    weights,        \* scoring: the weights argument (None or a dict)
    score,          \* scoring: the dict compute_composite_score returned
    hlc,            \* pivots: the arguments high, low, close (cents)
    pivots,         \* pivots: the dict compute_pivot_points returned
    levels,         \* clustering: the levels argument (cents, any order)
    tolerance_pct,  \* clustering: the tolerance (tenths of a percent)
    clusters,       \* clustering: the list cluster_levels returned
    df,             \* filters: the candidate table passed to apply_filters
    chain,          \* filters: the filter lists applied one after the other
    filtered,       \* filters: the table the last apply_filters returned
    tickers,        \* ranking: the tickers argument of rank_candidates
    fetched,        \* ranking: what the provider and the analysis did per visited ticker
    results,        \* ranking: the list the loop appends to
    ranked,         \* ranking: the table rank_candidates returned
    rank_pc,        \* ranking: "loop", "done", or "raised" when an exception escaped
    cli,            \* scan: the options --min-gap, --min-volume, --max-price
    settings,       \* scan: settings.screener
    filter_config,  \* scan: presets.get(preset, {}), the chosen preset's dict
    fetches,        \* scan: per Finviz ticker, the provider's pre-market record or failure
    scan_df,        \* scan: the table scan_premarket returned
    scan_pc,        \* scan: "ready" or "done"
    meta_file,      \* cache: the entries in _meta.json (none when the file is missing), or a BrokenFile
    parquet_files,  \* cache: the Parquet files of the cache directory, by file name
    cache_meta,     \* cache: self._meta of each DataCache instance, or NotOpen
    clock,          \* cache: the ticks of 60 seconds since time.time() was first read
    last_put,       \* cache: per (namespace, key), what the calls so far did to the entry
    cache_op,       \* cache: the last call if it was a get, its arguments and what it returned
    put_pc,         \* cache: per process, where it is in put: the step to take next and the arguments
    provider,       \* providers: the class being constructed, "massive" or "backtest"
    data_settings,  \* providers: get_settings().data
    environ,        \* providers: os.environ
    constructed,    \* providers: how the constructor ended
    watch_file,     \* watchlist: config/watchlists.yaml, missing or parsed
    watchlist_name, \* watchlist: the name passed to scan_watchlist
    watch_fetches,  \* watchlist: per ticker, the provider's pre-market record or failure
    watch_df,       \* watchlist: the table scan_watchlist returned
    watch_pc,       \* watchlist: "ready" or "done"
    bars,           \* levels: the rows of the OHLCV table, each with high, low, close
    order,          \* levels: find_support_resistance's window size
    current_price,  \* levels: the price passed to get_nearest_levels
    n_nearest,      \* levels: the n passed to get_nearest_levels
    sr_levels,      \* levels: what find_support_resistance returned
    nearest,        \* levels: what get_nearest_levels returned
    level_pc,       \* levels: "ready", "found", "done", or "raised" when an exception escaped
    close_series,   \* volume profile: the close argument, in cents
    volume_series,  \* volume profile: the volume argument, aligned with close
    bins,           \* volume profile: the bins argument
    profile,        \* volume profile: the rows of the table compute_volume_profile returned
    profile_pc,     \* volume profile: "ready" or "done"
    pm_provider,    \* pre-market quote: the provider class, "yahoo" or "massive"
    pm_info,        \* pre-market quote: the fields of the reply get_premarket reads
    pm_record,      \* pre-market quote: the dict get_premarket returned, or the exception
    pm_pc,          \* pre-market quote: "ready" or "done"
    series,         \* local extremes: the values of the price series, in cents
    ext_order,      \* local extremes: the order argument
    extremes,       \* local extremes: the (peaks, troughs) find_local_extremes returned
    ext_pc,         \* local extremes: "ready" or "done"
    batch_call,     \* batch fetch: the provider and the method called
    batch_tickers,  \* batch fetch: the tickers argument
    batch_fetches,  \* batch fetch: what the fetch of each position will do
    batch_i,        \* batch fetch: how many tickers the loop has taken
    batch_visited,  \* batch fetch: the tickers the single fetches were called with, in call order
    batch_results,  \* batch fetch: the list results
    batch_pc        \* batch fetch: "idle", "loop", "returned" or "raised"

scoreVars == <<row, weights, score>>
pivotVars == <<hlc, pivots>>
clusterVars == <<levels, tolerance_pct, clusters>>
filterVars == <<df, chain, filtered>>
rankVars == <<tickers, fetched, results, ranked, rank_pc>>
scanVars == <<cli, settings, filter_config, fetches, scan_df, scan_pc>>
cacheVars == <<meta_file, parquet_files, cache_meta, clock, last_put, cache_op, put_pc>>
providerVars == <<provider, data_settings, environ, constructed>>
watchVars == <<watch_file, watchlist_name, watch_fetches, watch_df, watch_pc>>
levelVars == <<bars, order, current_price, n_nearest, sr_levels, nearest, level_pc>>
profileVars == <<close_series, volume_series, bins, profile, profile_pc>>
premarketVars == <<pm_provider, pm_info, pm_record, pm_pc>>
extremeVars == <<series, ext_order, extremes, ext_pc>>
batchVars == <<batch_call, batch_tickers, batch_fetches, batch_i, batch_visited, batch_results, batch_pc>>

vars == <<scoreVars, pivotVars, clusterVars, filterVars, rankVars, scanVars, cacheVars, providerVars, watchVars, levelVars, profileVars, premarketVars, extremeVars, batchVars>>

(***************************************************************************)
(* Cells of a pandas row.  A column is absent from the row, present with   *)
(* NaN, or present with a number.  None is what row.get(col) gives for an  *)
(* absent column when no default is passed.                                *)
(***************************************************************************)
Num(x) == [k |-> "num", v |-> x]
NaN == [k |-> "nan", v |-> 0]
Absent == [k |-> "absent", v |-> 0]
None == [k |-> "none", v |-> 0]

Columns ==
    {"rsi", "macd_histogram", "stoch_k", "stoch_d", "roc_10", "close",
     "ema_9", "ema_20", "sma_50", "sma_200", "relative_volume", "vwap"}

\* row.get(col, default)
RowGet(r, col, default) == IF r[col].k = "absent" THEN default ELSE r[col]

\* pd.notna(x): neither NaN nor None
notna(x) == x.k = "num"

\* pd.isna(x)
isna(x) == x.k \in {"nan", "none"}

\* Python truthiness of a float: NaN is truthy, 0 is not
Truthy(x) == (x.k = "nan") \/ (x.k = "num" /\ x.v # 0)

Max(a, b) == IF a >= b THEN a ELSE b
Min(a, b) == IF a <= b THEN a ELSE b

(***************************************************************************)
(* IEEE 754 binary64 arithmetic, which Python's float and numpy's float64  *)
(* compute with.  A non-negative integer of any size is a sequence of      *)
(* limbs to the base 2^15, the least significant first and the most        *)
(* significant not 0.  A double is [s, m, e] with the value s * m * 2^e,   *)
(* where m is 0 or has exactly 53 bits.                                    *)
(***************************************************************************)
Base == 2^15

\* The powers of 2 below the base
Pow2 == [k \in 0..14 |-> 2^k]

RECURSIVE BigOf(_)
BigOf(n) == IF n = 0 THEN <<>> ELSE <<n % Base>> \o BigOf(n \div Base)

RECURSIVE BigToInt(_)
BigToInt(a) == IF a = <<>> THEN 0 ELSE Head(a) + Base * BigToInt(Tail(a))

RECURSIVE Strip(_)
Strip(a) ==
    IF a = <<>> THEN a
    ELSE IF a[Len(a)] = 0 THEN Strip(SubSeq(a, 1, Len(a) - 1))
    ELSE a

Limb(a, i) == IF i <= Len(a) THEN a[i] ELSE 0

RECURSIVE BigAddFrom(_, _, _, _)
BigAddFrom(a, b, i, carry) ==
    IF i > Len(a) /\ i > Len(b) THEN (IF carry = 0 THEN <<>> ELSE <<carry>>)
    ELSE LET x == Limb(a, i) + Limb(b, i) + carry
         IN  <<x % Base>> \o BigAddFrom(a, b, i + 1, x \div Base)

BigAdd(a, b) == BigAddFrom(a, b, 1, 0)

RECURSIVE BigSubFrom(_, _, _, _)
BigSubFrom(a, b, i, borrow) ==
    IF i > Len(a) THEN <<>>
    ELSE LET x == a[i] - Limb(b, i) - borrow
         IN  IF x < 0 THEN <<x + Base>> \o BigSubFrom(a, b, i + 1, 1)
             ELSE <<x>> \o BigSubFrom(a, b, i + 1, 0)

\* a - b for a >= b
BigSub(a, b) == Strip(BigSubFrom(a, b, 1, 0))

RECURSIVE BigCmpFrom(_, _, _)
BigCmpFrom(a, b, i) ==
    IF i = 0 THEN 0
    ELSE IF a[i] > b[i] THEN 1
    ELSE IF a[i] < b[i] THEN -1
    ELSE BigCmpFrom(a, b, i - 1)

\* -1, 0 or 1 as a < b, a = b or a > b
BigCmp(a, b) ==
    IF Len(a) > Len(b) THEN 1
    ELSE IF Len(a) < Len(b) THEN -1
    ELSE BigCmpFrom(a, b, Len(a))

RECURSIVE BigMulFrom(_, _, _, _)
BigMulFrom(a, k, i, carry) ==
    IF i > Len(a) THEN BigOf(carry)
    ELSE LET x == a[i] * k + carry
         IN  <<x % Base>> \o BigMulFrom(a, k, i + 1, x \div Base)

\* a * k for 0 <= k < 2^15
BigMulSmall(a, k) == IF k = 0 THEN <<>> ELSE BigMulFrom(a, k, 1, 0)

\* [q, r] of a divided by d, 0 < d <= 2^15
RECURSIVE BigDivSmall(_, _)
BigDivSmall(a, d) ==
    IF a = <<>> THEN [q |-> <<>>, r |-> 0]
    ELSE LET hi == BigDivSmall(Tail(a), d)
             x == hi.r * Base + Head(a)
         IN  [q |-> Strip(<<x \div d>> \o hi.q), r |-> x % d]

\* a * 2^s
BigShl(a, s) ==
    IF a = <<>> THEN a
    ELSE [i \in 1..(s \div 15) |-> 0] \o BigMulSmall(a, Pow2[s % 15])

\* a \div 2^s
BigShr(a, s) ==
    BigDivSmall(SubSeq(a, (s \div 15) + 1, Len(a)), Pow2[s % 15]).q

\* bit i of a, bit 0 the least significant
BigBit(a, i) == (Limb(a, (i \div 15) + 1) \div Pow2[i % 15]) % 2

\* a % 2^s # 0
BigLowBits(a, s) ==
    \/ \E i \in 1..(s \div 15) : Limb(a, i) # 0
    \/ Limb(a, (s \div 15) + 1) % Pow2[s % 15] # 0

\* The number of bits of a limb x > 0
LimbBits(x) ==
    IF x < 128
    THEN (IF x < 8 THEN (IF x < 2 THEN 1 ELSE IF x < 4 THEN 2 ELSE 3)
          ELSE IF x < 32 THEN (IF x < 16 THEN 4 ELSE 5)
          ELSE IF x < 64 THEN 6 ELSE 7)
    ELSE IF x < 2048 THEN (IF x < 512 THEN (IF x < 256 THEN 8 ELSE 9)
                           ELSE IF x < 1024 THEN 10 ELSE 11)
    ELSE IF x < 8192 THEN (IF x < 4096 THEN 12 ELSE 13)
    ELSE IF x < 16384 THEN 14 ELSE 15

\* The number of bits of a
BigBitLen(a) ==
    IF a = <<>> THEN 0
    ELSE 15 * (Len(a) - 1) + LimbBits(a[Len(a)])

\* The digit r \div d for r < d * 2^15, the top limb of d at least 2^14:
\* estimated from the top limbs, then corrected
RECURSIVE BigDigitFrom(_, _, _)
BigDigitFrom(r, d, q) ==
    IF BigCmp(BigMulSmall(d, q), r) > 0 THEN BigDigitFrom(r, d, q - 1) ELSE q

BigDigit(r, d) ==
    IF BigCmp(r, d) < 0 THEN 0
    ELSE LET top == Limb(r, Len(d) + 1) * Base + r[Len(d)]
             est == top \div d[Len(d)]
         IN  BigDigitFrom(r, d, IF est > Base - 1 THEN Base - 1 ELSE est)

\* [q, r] of n divided by d, the top limb of d at least 2^14
RECURSIVE BigDivMod(_, _)
BigDivMod(n, d) ==
    IF n = <<>> THEN [q |-> <<>>, r |-> <<>>]
    ELSE LET hi == BigDivMod(Tail(n), d)
             r0 == Strip(<<Head(n)>> \o hi.r)
             digit == BigDigit(r0, d)
         IN  [q |-> Strip(<<digit>> \o hi.q), r |-> BigSub(r0, BigMulSmall(d, digit))]

FZero == [s |-> 1, m |-> <<>>, e |-> 0]

\* The double nearest to s * n * 2^e, a tie to the even mantissa
FRound(s, n, e) ==
    LET len == BigBitLen(n)
        cut == len - 53
    IN  IF n = <<>> THEN FZero
        ELSE IF cut <= 0 THEN [s |-> s, m |-> BigShl(n, -cut), e |-> e + cut]
        ELSE LET q == BigShr(n, cut)
                 up == /\ BigBit(n, cut - 1) = 1
                       /\ (BigLowBits(n, cut - 1) \/ BigBit(q, 0) = 1)
                 m == IF up THEN BigAdd(q, <<1>>) ELSE q
             IN  IF BigBitLen(m) > 53 THEN [s |-> s, m |-> BigShr(m, 1), e |-> e + cut + 1]
                 ELSE [s |-> s, m |-> m, e |-> e + cut]

\* float(n) for an int n
FInt(n) == IF n < 0 THEN FRound(-1, BigOf(-n), 0) ELSE FRound(1, BigOf(n), 0)

FNeg(x) == IF x.m = <<>> THEN x ELSE [x EXCEPT !.s = -x.s]

FAbs(x) == [x EXCEPT !.s = 1]

\* x + y
FAdd(x, y) ==
    IF x.m = <<>> THEN y
    ELSE IF y.m = <<>> THEN x
    ELSE LET e == IF x.e < y.e THEN x.e ELSE y.e
             a == BigShl(x.m, x.e - e)
             b == BigShl(y.m, y.e - e)
             c == BigCmp(a, b)
         IN  IF x.s = y.s THEN FRound(x.s, BigAdd(a, b), e)
             ELSE IF c = 0 THEN FZero
             ELSE IF c > 0 THEN FRound(x.s, BigSub(a, b), e)
             ELSE FRound(y.s, BigSub(b, a), e)

\* x - y
FSub(x, y) == FAdd(x, FNeg(y))

\* x * k for an int k, |k| < 2^15
FMulInt(x, k) ==
    IF k < 0 THEN FRound(-x.s, BigMulSmall(x.m, -k), x.e)
    ELSE FRound(x.s, BigMulSmall(x.m, k), x.e)

\* x / y for y # 0 (every caller tests the divisor as the code does): 57 or
\* 58 bits of the quotient and one that tells whether there is a remainder,
\* rounded
FDiv(x, y) ==
    IF x.m = <<>> \/ y.m = <<>> THEN FZero
    ELSE LET qr == BigDivMod(BigShl(x.m, 63), BigShl(y.m, 7))
             n == BigAdd(BigMulSmall(qr.q, 2), IF qr.r = <<>> THEN <<>> ELSE <<1>>)
         IN  FRound(x.s * y.s, n, x.e - y.e - 57)

\* x / k for an int k, 0 < |k| < 2^15: the quotient of the mantissa to 68 bits
\* or more and one bit that tells whether there is a remainder, rounded
FDivInt(x, k) ==
    IF x.m = <<>> THEN FZero
    ELSE LET qr == BigDivSmall(<<0, 0>> \o x.m, IF k < 0 THEN -k ELSE k)
             n == BigAdd(BigMulSmall(qr.q, 2), IF qr.r = 0 THEN <<>> ELSE <<1>>)
         IN  FRound(IF k < 0 THEN -x.s ELSE x.s, n, x.e - 31)

\* -1, 0 or 1 as x < y, x = y or x > y: by the signs, then by the exponents
\* (the mantissas have the same length), then by the mantissas
FCmp(x, y) ==
    IF x.m = <<>> THEN (IF y.m = <<>> THEN 0 ELSE -y.s)
    ELSE IF y.m = <<>> \/ x.s # y.s THEN x.s
    ELSE IF x.e # y.e THEN (IF x.e > y.e THEN x.s ELSE -x.s)
    ELSE x.s * BigCmp(x.m, y.m)

\* round(x, ndigits) of a Python float, in units of 10^-ndigits: the nearest
\* to the exact value of x, a tie to the even one
PyRound(x, ndigits) ==
    LET t == BigMulSmall(x.m, 10^ndigits)
        q == IF x.e >= 0 THEN BigShl(t, x.e) ELSE BigShr(t, -x.e)
        up == /\ x.e < 0
              /\ BigBit(t, -x.e - 1) = 1
              /\ (BigLowBits(t, -x.e - 1) \/ BigBit(q, 0) = 1)
    IN  x.s * (BigToInt(q) + IF up THEN 1 ELSE 0)

\* round(x, ndigits) of a numpy float64, in units of 10^-ndigits: numpy
\* multiplies by 10^ndigits, rounds the product to the nearest integer (a tie
\* to the even one) and divides
NpRound(x, ndigits) == PyRound(FMulInt(x, 10^ndigits), 0)

\* The double nearest to n / 100: the float a decimal with two digits stands for
FHundredths(n) == FDivInt(FInt(n), 100)

\* The double nearest to n / 10
FTenths(n) == FDivInt(FInt(n), 10)

\* A mutant of Clamp: the upper clamp forgotten
ClampNoUpper(s) == Max(0, s)

\* max(0, min(100, score))
Clamp(s) == Max(0, Min(100, s))

(***************************************************************************)
(* score_momentum: rsi, stoch_k, stoch_d and roc_10 are whole units,       *)
(* macd_histogram is any signed unit.                                      *)
(***************************************************************************)
RsiPoints(r) ==
    LET rsi == RowGet(r, "rsi", Num(50))
    IN  IF ~notna(rsi) THEN 0
        ELSE IF 40 <= rsi.v /\ rsi.v <= 60 THEN 15
        ELSE IF 30 <= rsi.v /\ rsi.v < 40 THEN 20
        ELSE IF rsi.v < 30 THEN 10
        ELSE IF 60 < rsi.v /\ rsi.v <= 70 THEN 10
        ELSE IF rsi.v > 70 THEN -10
        ELSE 0

MacdPoints(r) ==
    LET hist == RowGet(r, "macd_histogram", Num(0))
    IN  IF ~notna(hist) THEN 0
        ELSE IF hist.v > 0 THEN 15
        ELSE -10

StochPoints(r) ==
    LET stoch_k == RowGet(r, "stoch_k", Num(50))
        stoch_d == RowGet(r, "stoch_d", Num(50))
    IN  IF ~(notna(stoch_k) /\ notna(stoch_d)) THEN 0
        ELSE IF stoch_k.v > stoch_d.v /\ stoch_k.v < 80 THEN 10
        ELSE IF stoch_k.v < stoch_d.v /\ stoch_k.v > 20 THEN -5
        ELSE 0

RocPoints(r) ==
    LET roc == RowGet(r, "roc_10", Num(0))
    IN  IF ~notna(roc) THEN 0
        ELSE IF roc.v > 5 THEN 10
        ELSE IF roc.v > 0 THEN 5
        ELSE IF roc.v < -5 THEN -10
        ELSE 0

score_momentum(r) ==
    Clamp(50 + RsiPoints(r) + MacdPoints(r) + StochPoints(r) + RocPoints(r))

(***************************************************************************)
(* score_trend: close and the moving averages are in one price unit.       *)
(***************************************************************************)
MaPoints(r, ma_col) ==
    LET close == RowGet(r, "close", Num(0))
        ma_val == RowGet(r, ma_col, None)
    IN  IF notna(ma_val) /\ ma_val.v > 0
        THEN (IF close.v > ma_val.v THEN 5 ELSE -5)
        ELSE 0

\* A mutant of AlignmentPoints: the bearish alignment costs as much as the
\* bullish one earns
AlignmentPointsSymmetric(r) ==
    LET ema9 == RowGet(r, "ema_9", None)
        ema20 == RowGet(r, "ema_20", None)
        sma50 == RowGet(r, "sma_50", None)
    IN  IF ~(notna(ema9) /\ notna(ema20) /\ notna(sma50)) THEN 0
        ELSE IF ema9.v > ema20.v /\ ema20.v > sma50.v THEN 15
        ELSE IF ema9.v < ema20.v /\ ema20.v < sma50.v THEN -15
        ELSE 0

AlignmentPoints(r) ==
    LET ema9 == RowGet(r, "ema_9", None)
        ema20 == RowGet(r, "ema_20", None)
        sma50 == RowGet(r, "sma_50", None)
    IN  IF ~(notna(ema9) /\ notna(ema20) /\ notna(sma50)) THEN 0
        ELSE IF ema9.v > ema20.v /\ ema20.v > sma50.v THEN 15
        ELSE IF ema9.v < ema20.v /\ ema20.v < sma50.v THEN -10
        ELSE 0

score_trend(r) ==
    LET close == RowGet(r, "close", Num(0))
    IN  IF ~Truthy(close) \/ isna(close) THEN 50
        ELSE Clamp(50 + MaPoints(r, "ema_9") + MaPoints(r, "ema_20")
                      + MaPoints(r, "sma_50") + MaPoints(r, "sma_200")
                      + AlignmentPoints(r))

(***************************************************************************)
(* score_volume: relative_volume is in tenths, close and vwap in one price *)
(* unit.  A NaN close is truthy and compares False with every vwap.        *)
(***************************************************************************)
RvolPoints(r) ==
    LET rvol == RowGet(r, "relative_volume", None)
    IN  IF ~notna(rvol) THEN 0
        ELSE IF rvol.v > 30 THEN 25
        ELSE IF rvol.v > 20 THEN 20
        ELSE IF rvol.v > 15 THEN 10
        ELSE IF rvol.v < 5 THEN -15
        ELSE 0

VwapPoints(r) ==
    LET close == RowGet(r, "close", Num(0))
        vwap == RowGet(r, "vwap", None)
    IN  IF notna(vwap) /\ vwap.v > 0 /\ Truthy(close)
        THEN (IF close.k = "num" /\ close.v > vwap.v THEN 10 ELSE -5)
        ELSE 0

score_volume(r) == Clamp(50 + RvolPoints(r) + VwapPoints(r))


(***************************************************************************)
(* compute_composite_score.  The weights argument is None or a dict whose  *)
(* keys may be missing; weight values are hundredths (0.35 is 35).         *)
(***************************************************************************)
WeightKeys == {"momentum", "trend", "volume"}

NoneWeights == [none |-> TRUE, momentum |-> Absent, trend |-> Absent, volume |-> Absent]

Dict(wm, wt, wv) == [none |-> FALSE, momentum |-> wm, trend |-> wt, volume |-> wv]

\* weights = {"momentum": 0.35, "trend": 0.35, "volume": 0.30} when None is passed
DefaultWeights == Dict(Num(35), Num(35), Num(30))

\* weights.get(key, default)
WeightGet(w, key, default) == IF w[key].k = "absent" THEN default ELSE w[key].v

\* The grade thresholds, in tenths of a point
GradeA == 800
GradeB == 650
GradeC == 500

\* A mutant of Grade: the B threshold compared strictly
GradeStrictB(total) ==
    IF total >= GradeA THEN "A"
    ELSE IF total > GradeB THEN "B"
    ELSE IF total >= GradeC THEN "C"
    ELSE "F"

Grade(total) ==
    IF total >= GradeA THEN "A"
    ELSE IF total >= GradeB THEN "B"
    ELSE IF total >= GradeC THEN "C"
    ELSE "F"

compute_composite_score(r, weights_arg) ==
    LET w == IF weights_arg.none THEN DefaultWeights ELSE weights_arg
        momentum == score_momentum(r)
        trend == score_trend(r)
        volume == score_volume(r)
        wm == WeightGet(w, "momentum", 35)
        wt == WeightGet(w, "trend", 35)
        wv == WeightGet(w, "volume", 30)
        total == PyRound(FAdd(FAdd(FMulInt(FHundredths(wm), momentum),
                                   FMulInt(FHundredths(wt), trend)),
                              FMulInt(FHundredths(wv), volume)), 1)
    IN  [total |-> total,
         momentum |-> 10 * momentum,
         trend |-> 10 * trend,
         volume |-> 10 * volume,
         grade |-> Grade(total)]

\* No score computed yet
NoScore == [total |-> 0, momentum |-> 0, trend |-> 0, volume |-> 0, grade |-> "-"]

(***************************************************************************)
(* compute_pivot_points.  Prices are whole cents and stand for the doubles *)
(* nearest to them; the levels are computed in doubles and rounded to      *)
(* cents by round(x, 2).                                                   *)
(***************************************************************************)
\* A mutant of compute_pivot_points: r1 and s1 mirror around the wrong side
compute_pivot_points_swapped(high, low, close) ==
    LET h == FHundredths(high)
        l == FHundredths(low)
        c == FHundredths(close)
        pivot == FDivInt(FAdd(FAdd(h, l), c), 3)
    IN  [pivot |-> PyRound(pivot, 2),
         r1 |-> PyRound(FSub(FMulInt(pivot, 2), h), 2),
         r2 |-> PyRound(FAdd(pivot, FSub(h, l)), 2),
         r3 |-> PyRound(FAdd(h, FMulInt(FSub(pivot, l), 2)), 2),
         s1 |-> PyRound(FSub(FMulInt(pivot, 2), l), 2),
         s2 |-> PyRound(FSub(pivot, FSub(h, l)), 2),
         s3 |-> PyRound(FSub(l, FMulInt(FSub(h, pivot), 2)), 2)]

\* pivot = (high + low + close) / 3 and the six levels around it, each
\* rounded to two decimals
compute_pivot_points(high, low, close) ==
    LET h == FHundredths(high)
        l == FHundredths(low)
        c == FHundredths(close)
        pivot == FDivInt(FAdd(FAdd(h, l), c), 3)
    IN  [pivot |-> PyRound(pivot, 2),
         r1 |-> PyRound(FSub(FMulInt(pivot, 2), l), 2),
         r2 |-> PyRound(FAdd(pivot, FSub(h, l)), 2),
         r3 |-> PyRound(FAdd(h, FMulInt(FSub(pivot, l), 2)), 2),
         s1 |-> PyRound(FSub(FMulInt(pivot, 2), h), 2),
         s2 |-> PyRound(FSub(pivot, FSub(h, l)), 2),
         s3 |-> PyRound(FSub(l, FMulInt(FSub(h, pivot), 2)), 2)]

(***************************************************************************)
(* cluster_levels.  Levels are prices in cents, the tolerance is in tenths *)
(* of a percent; both stand for the doubles nearest to them.               *)
(***************************************************************************)
RECURSIVE SumSeq(_)
SumSeq(q) == IF q = <<>> THEN 0 ELSE Head(q) + SumSeq(Tail(q))

\* q with x put before the first element greater than x (q ascending)
RECURSIVE InsertSorted(_, _)
InsertSorted(q, x) ==
    IF q = <<>> THEN <<x>>
    ELSE IF x < Head(q) THEN <<x>> \o q
    ELSE <<Head(q)>> \o InsertSorted(Tail(q), x)

\* sorted(levels)
RECURSIVE sorted(_)
sorted(q) == IF q = <<>> THEN <<>> ELSE InsertSorted(sorted(SubSeq(q, 1, Len(q) - 1)), q[Len(q)])

\* A mutant of ClusterReference: the cluster's first element
ClusterFirst(current_cluster) == current_cluster[1]

\* current_cluster[-1], the level a new price is compared with
ClusterReference(current_cluster) == current_cluster[Len(current_cluster)]

\* abs(price - ref) / ref * 100 <= tolerance_pct on doubles: the value of the
\* comparison, or the ZeroDivisionError the division by a ref of 0.0 raises
WithinTolerance(price, ref, tol) ==
    IF ref.m = <<>> THEN [k |-> "ZeroDivisionError", v |-> FALSE]
    ELSE [k |-> "bool",
          v |-> FCmp(FMulInt(FDiv(FAbs(FSub(price, ref)), ref), 100), tol) <= 0]

\* The builtin sum() on floats, which depends on the interpreter: up to
\* Python 3.11 every addition is rounded ("plain"), from Python 3.12 on the
\* rounding errors are added up beside the sum and added to it at the end
\* ("compensated")
SumKinds == {"plain", "compensated"}

\* sum(c) up to Python 3.11: 0 + c[0] + c[1] + ... from the left
RECURSIVE FSum(_)
FSum(q) == IF q = <<>> THEN FZero ELSE FAdd(FSum(SubSeq(q, 1, Len(q) - 1)), q[Len(q)])

\* sum() from Python 3.12 on, after the first float: f_result is the rounded
\* sum so far and c the compensation
RECURSIVE FSumCompensatedFrom(_, _, _)
FSumCompensatedFrom(rest, f_result, c) ==
    IF rest = <<>> THEN (IF c.m = <<>> THEN f_result ELSE FAdd(f_result, c))
    ELSE LET x == Head(rest)
             t == FAdd(f_result, x)
             lost == IF FCmp(FAbs(f_result), FAbs(x)) >= 0
                     THEN FAdd(FSub(f_result, t), x)
                     ELSE FAdd(FSub(x, t), f_result)
         IN  FSumCompensatedFrom(Tail(rest), t, FAdd(c, lost))

\* sum(c) from Python 3.12 on: 0 + c[0] is added as any two numbers are, the
\* floats after it with compensation
FSumCompensated(q) ==
    IF q = <<>> THEN FZero ELSE FSumCompensatedFrom(Tail(q), FAdd(FZero, Head(q)), FZero)

\* sum(c) under the interpreter's kind of sum
PySum(q, kind) == IF kind = "plain" THEN FSum(q) ELSE FSumCompensated(q)

\* round(sum(c) / len(c), 2), in cents
ClusterMean(c, kind) == PyRound(FDivInt(PySum(c, kind), Len(c)), 2)

\* The loop of cluster_levels ended: it went through (k is "list", v the
\* clusters) or the tolerance test raised (k is the exception)
LoopRaised(exception) == [k |-> exception, v |-> <<>>]

\* A mutant of GroupLevels: the cluster still open when the loop ends is lost
RECURSIVE GroupLevelsDropLast(_, _, _, _)
GroupLevelsDropLast(rest, current_cluster, done, tol) ==
    IF rest = <<>> THEN [k |-> "list", v |-> done]
    ELSE LET within == WithinTolerance(Head(rest), ClusterReference(current_cluster), tol)
         IN  IF within.k # "bool" THEN LoopRaised(within.k)
             ELSE IF within.v
             THEN GroupLevelsDropLast(Tail(rest), Append(current_cluster, Head(rest)), done, tol)
             ELSE GroupLevelsDropLast(Tail(rest), <<Head(rest)>>, Append(done, current_cluster), tol)

\* The loop over sorted_levels[1:]: rest is what is left to visit
RECURSIVE GroupLevels(_, _, _, _)
GroupLevels(rest, current_cluster, done, tol) ==
    IF rest = <<>> THEN [k |-> "list", v |-> Append(done, current_cluster)]
    ELSE LET within == WithinTolerance(Head(rest), ClusterReference(current_cluster), tol)
         IN  IF within.k # "bool" THEN LoopRaised(within.k)
             ELSE IF within.v
             THEN GroupLevels(Tail(rest), Append(current_cluster, Head(rest)), done, tol)
             ELSE GroupLevels(Tail(rest), <<Head(rest)>>, Append(done, current_cluster), tol)

\* What a call of cluster_levels that raised leaves in place of the list
Raised(exception) == <<[raised |-> exception]>>

\* The list cluster_levels returns for the clusters its loop ended with, or
\* the exception of the loop in place of the list
Clusters(groups, kind) ==
    IF groups.k # "list" THEN Raised(groups.k)
    ELSE [i \in 1..Len(groups.v) |->
             [level |-> ClusterMean(groups.v[i], kind),
              strength |-> Len(groups.v[i])]]

\* cluster_levels(levels, tolerance_pct) on levels in cents and a tolerance in
\* tenths of a percent, which stand for the doubles nearest to them; level is
\* the mean rounded to two decimals, strength the member count.  A level of
\* 0.0 that another level follows raises ZeroDivisionError.
cluster_levels(lv, tol, kind) ==
    IF lv = <<>> THEN <<>>
    ELSE LET cents == sorted(lv)
             sorted_levels == [i \in 1..Len(cents) |-> FHundredths(cents[i])]
         IN  Clusters(GroupLevels(Tail(sorted_levels), <<Head(sorted_levels)>>, <<>>, FTenths(tol)), kind)

(***************************************************************************)
(* find_local_extremes, find_support_resistance and get_nearest_levels.    *)
(* A series is a sequence of prices in cents, position 1 being index 0.    *)
(***************************************************************************)
\* np.max / np.min of a non-empty window
MaxOf(q) == CHOOSE x \in {q[i] : i \in DOMAIN q} : \A j \in DOMAIN q : q[j] <= x

MinOf(q) == CHOOSE x \in {q[i] : i \in DOMAIN q} : \A j \in DOMAIN q : q[j] >= x

\* values[i - order : i + order + 1] around position i
Window(values, i, ord) == SubSeq(values, i - ord, i + ord)

\* The positions range(order, len(values) - order) visits
ExtremePositions(values, ord) == {i \in DOMAIN values : i > ord /\ i <= Len(values) - ord}

\* The positions in ascending order
RECURSIVE Ascending(_)
Ascending(S) ==
    IF S = {} THEN <<>>
    ELSE LET x == CHOOSE x \in S : \A y \in S : x <= y
         IN  <<x>> \o Ascending(S \ {x})

\* A mutant of find_local_extremes: a trough is any position holding the
\* window's minimum, also one that is a peak
find_local_extremes_overlapping(values, ord) ==
    LET positions == Ascending(ExtremePositions(values, ord))
        is_peak(i) == values[i] = MaxOf(Window(values, i, ord))
        is_trough(i) == values[i] = MinOf(Window(values, i, ord))
        peaks == SelectSeq(positions, is_peak)
        troughs == SelectSeq(positions, is_trough)
    IN  [peaks |-> [k \in DOMAIN peaks |-> <<peaks[k] - 1, values[peaks[k]]>>],
         troughs |-> [k \in DOMAIN troughs |-> <<troughs[k] - 1, values[troughs[k]]>>]]

\* find_local_extremes: the (index, price) pairs of the peaks and of the
\* troughs, in index order; a position that is the window's maximum is a peak
\* and no trough
find_local_extremes(values, ord) ==
    LET positions == Ascending(ExtremePositions(values, ord))
        is_peak(i) == values[i] = MaxOf(Window(values, i, ord))
        is_trough(i) == ~is_peak(i) /\ values[i] = MinOf(Window(values, i, ord))
        peaks == SelectSeq(positions, is_peak)
        troughs == SelectSeq(positions, is_trough)
    IN  [peaks |-> [k \in DOMAIN peaks |-> <<peaks[k] - 1, values[peaks[k]]>>],
         troughs |-> [k \in DOMAIN troughs |-> <<troughs[k] - 1, values[troughs[k]]>>]]

\* [p for _, p in pairs]
Prices(pairs) == [k \in DOMAIN pairs |-> pairs[k][2]]

\* q (ascending by level) with x put behind the entries whose level is <= x's
InsertByLevel(q, x) ==
    SelectSeq(q, LAMBDA y : y.level <= x.level) \o <<x>> \o SelectSeq(q, LAMBDA y : y.level > x.level)

\* q (descending by level) with x put behind the entries whose level is >= x's
InsertByLevelReverse(q, x) ==
    SelectSeq(q, LAMBDA y : y.level >= x.level) \o <<x>> \o SelectSeq(q, LAMBDA y : y.level < x.level)

\* list.sort(key=level): stable
RECURSIVE SortByLevel(_)
SortByLevel(q) ==
    IF q = <<>> THEN <<>> ELSE InsertByLevel(SortByLevel(SubSeq(q, 1, Len(q) - 1)), q[Len(q)])

\* list.sort(key=level, reverse=True): stable
RECURSIVE SortByLevelReverse(_)
SortByLevelReverse(q) ==
    IF q = <<>> THEN <<>>
    ELSE InsertByLevelReverse(SortByLevelReverse(SubSeq(q, 1, Len(q) - 1)), q[Len(q)])

Column(rows, name) == [i \in DOMAIN rows |-> rows[i][name]]

\* The dict find_support_resistance builds from its two lists of clusters, or
\* the exception either call of cluster_levels raised
SupportResistance(resistance, support) ==
    IF resistance = Raised("ZeroDivisionError") \/ support = Raised("ZeroDivisionError")
    THEN [raised |-> "ZeroDivisionError"]
    ELSE [resistance |-> SortByLevel(resistance), support |-> SortByLevelReverse(support)]

\* find_support_resistance(df, order, tolerance_pct): the dict of the two
\* sorted lists, or the exception the first cluster_levels that raised let
\* through
find_support_resistance(rows, ord, tol, kind) ==
    LET close == find_local_extremes(Column(rows, "close"), ord)
        high == find_local_extremes(Column(rows, "high"), ord)
        low == find_local_extremes(Column(rows, "low"), ord)
    IN  SupportResistance(cluster_levels(Prices(close.peaks) \o Prices(high.peaks), tol, kind),
                          cluster_levels(Prices(close.troughs) \o Prices(low.troughs), tol, kind))

\* q[:n]
Slice(q, n) ==
    IF n >= 0 THEN SubSeq(q, 1, Min(n, Len(q)))
    ELSE SubSeq(q, 1, Max(Len(q) + n, 0))

\* A mutant of get_nearest_levels: the comparisons with the price are not strict
get_nearest_levels_inclusive(price, sr, n) ==
    [resistance |-> Slice(SelectSeq(sr.resistance, LAMBDA r : r.level >= price), n),
     support |-> Slice(SelectSeq(sr.support, LAMBDA r : r.level <= price), n)]

get_nearest_levels(price, sr, n) ==
    [resistance |-> Slice(SelectSeq(sr.resistance, LAMBDA r : r.level > price), n),
     support |-> Slice(SelectSeq(sr.support, LAMBDA r : r.level < price), n)]

(***************************************************************************)
(* The volume profile.  Closes are whole cents, standing for the doubles   *)
(* nearest to them, and volumes whole shares; the edges, the masks, the    *)
(* mid prices and the percentages are computed in doubles.  price_level is *)
(* in cents and pct_of_total in hundredths of a percent, both rounded as   *)
(* round(x, 2) rounds a numpy float64.                                     *)
(***************************************************************************)

\* bin_edges = np.linspace(price_min, price_max, bins + 1), as a function of
\* the index 0..bins: the last edge is price_max itself, the others are
\* i * step + price_min with step = (price_max - price_min) / bins; every
\* edge is NaN for an empty series, whose close.min() is NaN
BinEdges(closes, b) ==
    IF closes = <<>> THEN [i \in 0..b |-> NaN]
    ELSE LET start == FHundredths(MinOf(closes))
             stop == FHundredths(MaxOf(closes))
             step == FDivInt(FSub(stop, start), b)
         IN  [i \in 0..b |-> IF i = b THEN stop ELSE FAdd(FMulInt(step, i), start)]

\* The closes of the series as doubles
CloseValues(closes) == [k \in 1..Len(closes) |-> FHundredths(closes[k])]

\* mask = (close >= low_edge) & (close < high_edge), for one close c and
\* the bin i (counted from 0)
InBin(c, bin_edges, i) ==
    /\ FCmp(c, bin_edges[i]) >= 0
    /\ FCmp(c, bin_edges[i + 1]) < 0

\* volume[mask].sum() for the bin i
VolumeAtLevel(close, volumes, bin_edges, i) ==
    SumSeq([k \in 1..Len(close) |->
               IF InBin(close[k], bin_edges, i) THEN volumes[k] ELSE 0])

\* round((low_edge + high_edge) / 2, 2) of a float64, NaN when the edges are
MidPrice(bin_edges, i) ==
    IF bin_edges[i] = NaN THEN NaN
    ELSE Num(NpRound(FDivInt(FAdd(bin_edges[i], bin_edges[i + 1]), 2), 2))

\* round(vol_at_level / total_vol * 100, 2) of a float64 if total_vol > 0 else 0
PctOfTotal(vol_at_level, total_vol) ==
    IF total_vol > 0
    THEN NpRound(FMulInt(FDiv(FInt(vol_at_level), FInt(total_vol)), 100), 2)
    ELSE 0

\* The list levels after the loop over range(bins)
ProfileLevels(closes, volumes, b) ==
    LET close == CloseValues(closes)
        bin_edges == BinEdges(closes, b)
        total_vol == SumSeq(volumes)
    IN  [j \in 1..b |->
            LET vol_at_level == VolumeAtLevel(close, volumes, bin_edges, j - 1)
            IN  [price_level |-> MidPrice(bin_edges, j - 1),
                 volume |-> vol_at_level,
                 pct_of_total |-> PctOfTotal(vol_at_level, total_vol)]]

\* A mutant of InsertByVolume: the order ascending
InsertByVolumeAscending(q, x) ==
    LET before == SelectSeq(q, LAMBDA y : y.volume <= x.volume)
        after == SelectSeq(q, LAMBDA y : y.volume > x.volume)
    IN  before \o <<x>> \o after

\* q (descending by volume) with x put behind the rows whose volume is >= x's
InsertByVolume(q, x) ==
    LET before == SelectSeq(q, LAMBDA y : y.volume >= x.volume)
        after == SelectSeq(q, LAMBDA y : y.volume < x.volume)
    IN  before \o <<x>> \o after

\* sort_values("volume", ascending=False) on a table of at most 16 rows,
\* where equal volumes keep their order
RECURSIVE SortByVolume(_)
SortByVolume(q) ==
    IF q = <<>> THEN <<>>
    ELSE InsertByVolume(SortByVolume(SubSeq(q, 1, Len(q) - 1)), q[Len(q)])

\* compute_volume_profile(close, volume, bins) for bins >= 1
compute_volume_profile(closes, volumes, b) == SortByVolume(ProfileLevels(closes, volumes, b))

(***************************************************************************)
(* get_premarket of the two providers.  A field of the reply is absent,    *)
(* None or a number; prices are whole cents and gap_pct is in hundredths   *)
(* of a percent, rounded as round(gap_pct, 2).                             *)
(***************************************************************************)
\* d.get(field, 0)
GetOrZero(d, field) == IF d[field] = Absent THEN Num(0) ELSE d[field]

\* a or b on numbers and None: a when it is truthy, b otherwise
Or(a, b) == IF a.k = "num" /\ a.v # 0 THEN a ELSE b

\* round(((pre_price - prev_close) / prev_close * 100) if prev_close else 0, 2);
\* None - number raises TypeError
GapPct(pre_price, prev_close) ==
    IF ~(prev_close.k = "num" /\ prev_close.v # 0) THEN Num(0)
    ELSE IF pre_price.k # "num" THEN [k |-> "TypeError", v |-> 0]
    ELSE Num(PyRound(FMulInt(FDiv(FSub(FHundredths(pre_price.v), FHundredths(prev_close.v)),
                                  FHundredths(prev_close.v)), 100), 2))

\* The dict get_premarket returns, or the exception it raises
PremarketResult(pre_price, prev_close) ==
    IF GapPct(pre_price, prev_close).k # "num"
    THEN [k |-> "raised", exception |-> GapPct(pre_price, prev_close).k]
    ELSE [k |-> "record", pre_price |-> pre_price, prev_close |-> prev_close,
          gap_pct |-> GapPct(pre_price, prev_close).v]

\* YahooProvider.get_premarket on t.info
yahoo_get_premarket(info) ==
    PremarketResult(Or(GetOrZero(info, "preMarketPrice"), Num(0)),
                    Or(GetOrZero(info, "previousClose"), Num(0)))

\* MassiveProvider.get_premarket on the session and prevDay parts of the snapshot
massive_get_premarket(snap) ==
    PremarketResult(Or(GetOrZero(snap, "price"), GetOrZero(snap, "close")),
                    GetOrZero(snap, "c"))

(***************************************************************************)
(* The screener's filters.  A table is its set of column names and its     *)
(* rows in order; prices are dollars, volumes thousands of shares, gaps    *)
(* whole percent.  A filter is the closure's captured arguments.           *)
(***************************************************************************)
\* float("inf"): above every number of the model
Inf == 1000000

Abs(x) == IF x < 0 THEN -x ELSE x

Table(cols, rows) == [cols |-> cols, rows |-> rows]

\* df.empty
Empty(t) == t.rows = <<>>

\* df[mask]: the rows that satisfy Keep, in their order, same columns
Select(t, Keep(_)) == Table(t.cols, SelectSeq(t.rows, Keep))

price_filter(min_price, max_price) ==
    [kind |-> "price", lo |-> min_price, hi |-> max_price, column |-> "pre_price"]

volume_filter(min_volume, column) ==
    [kind |-> "volume", lo |-> min_volume, hi |-> Inf, column |-> column]

gap_filter(min_gap_pct) ==
    [kind |-> "gap", lo |-> min_gap_pct, hi |-> Inf, column |-> "gap_pct"]

avg_volume_filter(min_avg_volume) ==
    [kind |-> "avg_volume", lo |-> min_avg_volume, hi |-> Inf, column |-> "avg_volume"]

\* float_shares <= max_float_millions * 1_000_000, in thousands of shares
float_filter(max_float_millions) ==
    [kind |-> "float", lo |-> 0, hi |-> max_float_millions * 1000, column |-> "float_shares"]

\* A mutant of the filters: the gap compared without its absolute value
ApplyFilterSignedGap(f, t) ==
    IF f.kind = "price" THEN
        LET col == IF "pre_price" \in t.cols THEN "pre_price" ELSE "price"
        IN  IF col \notin t.cols THEN t
            ELSE Select(t, LAMBDA r : r[col] >= f.lo /\ r[col] <= f.hi)
    ELSE IF f.column \notin t.cols THEN t
    ELSE IF f.kind = "float" THEN Select(t, LAMBDA r : r[f.column] <= f.hi)
    ELSE Select(t, LAMBDA r : r[f.column] >= f.lo)

\* The closure _filter(df) of each filter
ApplyFilter(f, t) ==
    IF f.kind = "price" THEN
        LET col == IF "pre_price" \in t.cols THEN "pre_price" ELSE "price"
        IN  IF col \notin t.cols THEN t
            ELSE Select(t, LAMBDA r : r[col] >= f.lo /\ r[col] <= f.hi)
    ELSE IF f.column \notin t.cols THEN t
    ELSE IF f.kind = "gap" THEN Select(t, LAMBDA r : Abs(r[f.column]) >= f.lo)
    ELSE IF f.kind = "float" THEN Select(t, LAMBDA r : r[f.column] <= f.hi)
    ELSE Select(t, LAMBDA r : r[f.column] >= f.lo)

\* A mutant of apply_filters: the early stop taken when at most one row is left
RECURSIVE apply_filters_stop_at_one(_, _)
apply_filters_stop_at_one(t, filters) ==
    IF filters = <<>> THEN t
    ELSE LET result == ApplyFilter(Head(filters), t)
         IN  IF Len(result.rows) <= 1 THEN result
             ELSE apply_filters_stop_at_one(result, Tail(filters))

\* The loop of apply_filters, which stops at the first empty result
RECURSIVE apply_filters(_, _)
apply_filters(t, filters) ==
    IF filters = <<>> THEN t
    ELSE LET result == ApplyFilter(Head(filters), t)
         IN  IF Empty(result) THEN result
             ELSE apply_filters(result, Tail(filters))

\* apply_filters called once per list of groups, each call on the previous result
RECURSIVE ApplyGroups(_, _)
ApplyGroups(t, groups) ==
    IF groups = <<>> THEN t
    ELSE ApplyGroups(apply_filters(t, Head(groups)), Tail(groups))

(***************************************************************************)
(* Exceptions.  The class of a raised exception is the tuple cls.__mro__:  *)
(* the class itself and the classes it derives from, in method resolution  *)
(* order, each named by its module and its qualified name.  An except      *)
(* clause catches the exception if the class it names is in that tuple.    *)
(***************************************************************************)
TypeError ==
    <<"builtins.TypeError", "builtins.Exception", "builtins.BaseException", "builtins.object">>

ConnectionError ==
    <<"builtins.ConnectionError", "builtins.OSError", "builtins.Exception",
      "builtins.BaseException", "builtins.object">>

\* The HTTPError of urllib, a class of two families
HTTPError ==
    <<"urllib.error.HTTPError", "urllib.error.URLError", "builtins.OSError",
      "builtins.Exception", "builtins.BaseException", "urllib.response.addinfourl",
      "urllib.response.addinfo", "urllib.response.addbase",
      "tempfile._TemporaryFileWrapper", "builtins.object">>

\* concurrent.futures.CancelledError, raised by Future.result()
FuturesCancelledError ==
    <<"concurrent.futures._base.CancelledError", "concurrent.futures._base.Error",
      "builtins.Exception", "builtins.BaseException", "builtins.object">>

\* asyncio.CancelledError, raised by asyncio.run() when its task is cancelled
CancelledError ==
    <<"asyncio.exceptions.CancelledError", "builtins.BaseException", "builtins.object">>

\* The user interrupts the process
KeyboardInterrupt == <<"builtins.KeyboardInterrupt", "builtins.BaseException", "builtins.object">>

\* sys.exit()
SystemExit == <<"builtins.SystemExit", "builtins.BaseException", "builtins.object">>

\* The classes that do not derive from Exception, by name
NotExceptions ==
    {"asyncio.exceptions.CancelledError", "builtins.KeyboardInterrupt", "builtins.SystemExit"}

\* cls.__module__ + "." + cls.__qualname__
ClassName(cls) == cls[1]

\* issubclass(cls, base)
IsSubclass(cls, base) == \E i \in DOMAIN cls : cls[i] = base

\* except Exception: the clause catches an exception whose class is Exception
\* or derives from it
IsException(cls) == IsSubclass(cls, "builtins.Exception")

(***************************************************************************)
(* rank_candidates.  Per ticker the provider and the analysis either raise *)
(* at one of the calls inside the try block or deliver a history of some   *)
(* length, its latest indicator row and a quote.                           *)
(***************************************************************************)
\* len(df) < 20
MinHistory == 20

\* The calls of one loop iteration that can raise, in program order
Stages ==
    {"get_history", "compute_all_indicators", "add_volume_indicators",
     "compute_composite_score", "get_quote"}

\* A mutant of Caught: only get_history sits inside the try block
CaughtOnlyHistory(stage, cls) == stage = "get_history" /\ IsException(cls)

\* The try block spans every call of the iteration, and its only clause is
\* "except Exception"
Caught(stage, cls) == stage \in Stages /\ IsException(cls)

\* df.empty or len(df) < 20
Insufficient(history_rows) == history_rows = 0 \/ history_rows < MinHistory

\* The dict appended to results; the score's keys are merged last, so its
\* "volume" replaces the quote's
ResultRow(ticker, quote, latest, w) ==
    compute_composite_score(latest, w) @@
    [ticker |-> ticker, name |-> quote.name, price |-> quote.price,
     volume |-> quote.volume, avg_volume |-> quote.avg_volume]

\* A mutant of InsertByTotal: ascending order
InsertByTotalAscending(q, x) ==
    LET before == SelectSeq(q, LAMBDA y : y.total <= x.total)
        after == SelectSeq(q, LAMBDA y : y.total > x.total)
    IN  before \o <<x>> \o after

\* q (descending by total) with x put behind the rows whose total is >= x's
InsertByTotal(q, x) ==
    LET before == SelectSeq(q, LAMBDA y : y.total >= x.total)
        after == SelectSeq(q, LAMBDA y : y.total < x.total)
    IN  before \o <<x>> \o after

\* sort_values("total", ascending=False): rows with equal totals keep their order
RECURSIVE SortByTotal(_)
SortByTotal(q) ==
    IF q = <<>> THEN <<>>
    ELSE InsertByTotal(SortByTotal(SubSeq(q, 1, Len(q) - 1)), q[Len(q)])

(***************************************************************************)
(* build_filter_chain, scan_premarket and the scan command.  A config dict *)
(* maps each key to a number or leaves it out.                             *)
(***************************************************************************)
ConfigKeys ==
    {"min_price", "max_price", "min_premarket_volume", "min_gap_pct",
     "min_avg_volume", "max_float_millions", "max_results"}

\* key in config
Has(config, key) == config[key].k # "absent"

\* config.get(key, default)
ConfigGet(config, key, default) == IF Has(config, key) THEN config[key].v ELSE default

IfThen(cond, q) == IF cond THEN q ELSE <<>>

\* A mutant of build_filter_chain: a price filter only when min_price is configured
build_filter_chain_min_price(config) ==
    IfThen(Has(config, "min_price"),
           <<price_filter(ConfigGet(config, "min_price", 0), ConfigGet(config, "max_price", Inf))>>)
    \o IfThen(Has(config, "min_premarket_volume"),
              <<volume_filter(config["min_premarket_volume"].v, "pre_volume")>>)
    \o IfThen(Has(config, "min_gap_pct"), <<gap_filter(config["min_gap_pct"].v)>>)
    \o IfThen(Has(config, "min_avg_volume"), <<avg_volume_filter(config["min_avg_volume"].v)>>)
    \o IfThen(Has(config, "max_float_millions"), <<float_filter(config["max_float_millions"].v)>>)

build_filter_chain(config) ==
    IfThen(Has(config, "min_price") \/ Has(config, "max_price"),
           <<price_filter(ConfigGet(config, "min_price", 0), ConfigGet(config, "max_price", Inf))>>)
    \o IfThen(Has(config, "min_premarket_volume"),
              <<volume_filter(config["min_premarket_volume"].v, "pre_volume")>>)
    \o IfThen(Has(config, "min_gap_pct"), <<gap_filter(config["min_gap_pct"].v)>>)
    \o IfThen(Has(config, "min_avg_volume"), <<avg_volume_filter(config["min_avg_volume"].v)>>)
    \o IfThen(Has(config, "max_float_millions"), <<float_filter(config["max_float_millions"].v)>>)

\* A mutant of InsertByAbsGap: the sort key abs forgotten
InsertByGap(q, x) ==
    LET before == SelectSeq(q, LAMBDA y : y.gap_pct >= x.gap_pct)
        after == SelectSeq(q, LAMBDA y : y.gap_pct < x.gap_pct)
    IN  before \o <<x>> \o after

\* q (descending by |gap_pct|) with x put behind the rows whose |gap_pct| is >= x's
InsertByAbsGap(q, x) ==
    LET before == SelectSeq(q, LAMBDA y : Abs(y.gap_pct) >= Abs(x.gap_pct))
        after == SelectSeq(q, LAMBDA y : Abs(y.gap_pct) < Abs(x.gap_pct))
    IN  before \o <<x>> \o after

\* sort_values("gap_pct", key=abs, ascending=False): equal keys keep their order
RECURSIVE SortByAbsGap(_)
SortByAbsGap(q) ==
    IF q = <<>> THEN <<>>
    ELSE InsertByAbsGap(SortByAbsGap(SubSeq(q, 1, Len(q) - 1)), q[Len(q)])

\* df.head(n): the first n rows, or all but the last -n for a negative n
HeadRows(q, n) ==
    IF n >= 0 THEN SubSeq(q, 1, Min(n, Len(q)))
    ELSE SubSeq(q, 1, Max(Len(q) + n, 0))

\* The columns of a provider's pre-market record that the model keeps
PremarketColumns == {"ticker", "pre_price", "gap_pct", "pre_volume", "avg_volume", "float_shares"}

\* pd.DataFrame()
EmptyFrame == Table({}, <<>>)

\* provider.get_multiple_premarket(tickers): the records of the tickers whose fetch did not raise
get_multiple_premarket(fs) ==
    LET ok == SelectSeq(fs, LAMBDA f : f.ok)
    IN  [i \in 1..Len(ok) |-> ok[i].record]

\* scan_premarket(settings, preset, provider); fs holds one entry per ticker
\* Finviz returned.  Of settings.screener only max_results is read here.
scan_premarket(screener, config, fs) ==
    IF fs = <<>> THEN EmptyFrame
    ELSE LET premarket_data == get_multiple_premarket(fs)
         IN  IF premarket_data = <<>> THEN EmptyFrame
             ELSE LET t == apply_filters(Table(PremarketColumns, premarket_data),
                                         build_filter_chain(config))
                      max_results == ConfigGet(config, "max_results", screener.max_results)
                  IN  IF Empty(t) THEN t
                      ELSE Table(t.cols, HeadRows(SortByAbsGap(t.rows), max_results))

\* The scan command's overrides: each option given replaces a field of settings.screener
ApplyOverrides(screener, options) ==
    [screener EXCEPT
        !.min_gap_pct = IF options.min_gap.k = "none" THEN @ ELSE options.min_gap.v,
        !.min_premarket_volume = IF options.min_volume.k = "none" THEN @ ELSE options.min_volume.v,
        !.max_price = IF options.max_price.k = "none" THEN @ ELSE options.max_price.v]

\* ScreenerSettings(): gap in percent, volumes in thousands, prices in dollars
ScreenerSettings ==
    [min_gap_pct |-> 2, min_premarket_volume |-> 200, min_price |-> 2,
     max_price |-> 200, min_avg_volume |-> 500, max_results |-> 20]

(***************************************************************************)
(* DataCache.  Namespaces, keys and file names are strings: sequences of   *)
(* characters, a character being its Unicode code point (ord).  A dict is  *)
(* a function whose domain is its key set.  time.time() is a double that   *)
(* is not a whole number of seconds, and so is the timestamp of an entry.  *)
(***************************************************************************)
\* ord(":"), ord("/") and ord("_")
Colon == 58

Slash == 47

Underscore == 95

\* ".parquet"
DotParquet == <<46, 112, 97, 114, 113, 117, 101, 116>>

\* str.replace(old, new) for a single character
Replace(str, old, new) == [i \in 1..Len(str) |-> IF str[i] = old THEN new ELSE str[i]]

\* str.startswith(prefix)
StartsWith(str, prefix) ==
    Len(str) >= Len(prefix) /\ SubSeq(str, 1, Len(prefix)) = prefix

\* f"{namespace}:{key}"
cache_key(namespace, key) == namespace \o <<Colon>> \o key

\* f"{namespace}_{key}.parquet".replace("/", "_").replace(":", "_")
FileName(namespace, key) ==
    Replace(Replace(namespace \o <<Underscore>> \o key \o DotParquet, Slash, Underscore),
            Colon, Underscore)

\* The seconds between two readings of the clock that are ticks apart
Seconds(ticks) == ticks * 60

\* time.time() when the clock was first read: half a second past the epoch
StartTime == FDivInt(FInt(1), 2)

\* The clock of a cache specification runs up to MaxClock ticks, and the
\* clock of the race of two processes for one tick
MaxClock == 2

MaxRaceClock == 1

\* time.time() after ticks ticks of the clock
TimeAfter(ticks) == FAdd(StartTime, FInt(Seconds(ticks)))

\* The readings of the clock the specifications can reach, computed once
ClockTimes == [t \in 0..Max(MaxClock, MaxRaceClock) |-> TimeAfter(t)]

TimeAt(ticks) == IF ticks \in DOMAIN ClockTimes THEN ClockTimes[ticks] ELSE TimeAfter(ticks)

\* d[k] = v on a dict
DictPut(d, k, v) == [x \in DOMAIN d \cup {k} |-> IF x = k THEN v ELSE d[x]]

\* d without the keys in ks
DictDrop(d, ks) == [x \in DOMAIN d \ ks |-> d[x]]

\* {}
EmptyDict == [x \in {} |-> 0]

\* A DataCache that was not constructed
NotOpen == [open |-> FALSE, meta |-> EmptyDict]

Opened(meta) == [open |-> TRUE, meta |-> meta]

\* _meta.json with text that is no JSON document: the first n characters of a
\* text whose writing stopped there (none after open(path, "w") emptied the
\* file), or a text of n characters whose head a shorter text was written over
BrokenFile(n) == [ck \in {<<>>} |-> n]

Unparsable(file) == <<>> \in DOMAIN file

\* The number of digits of n >= 0
RECURSIVE Digits(_)
Digits(n) == IF n < 10 THEN 1 ELSE 1 + Digits(n \div 10)

\* The characters json.dump writes for the character c of a string
\* (ensure_ascii): a quote, a backslash and \b \t \n \f \r take a backslash
\* and one character, any other printable ASCII character is written as it
\* is, any other character of the basic plane as \uXXXX and a character
\* beyond it as a surrogate pair \uXXXX\uXXXX
JsonCharLen(c) ==
    IF c \in {34, 92, 8, 9, 10, 12, 13} THEN 2
    ELSE IF c >= 32 /\ c <= 126 THEN 1
    ELSE IF c < 65536 THEN 6
    ELSE 12

\* len(json.dumps(str)): the quotes and the characters between them
JsonStrLen(str) == 2 + SumSeq([i \in 1..Len(str) |-> JsonCharLen(str[i])])

(***************************************************************************)
(* float.__repr__, which json.dump writes a float with: the shortest       *)
(* decimal digits that read back as the same double, found as Burger and   *)
(* Dybvig's free-format algorithm finds them.  The double is r / s, and    *)
(* the decimals less than mp / s above it or mm / s below it read back as  *)
(* the double; with an even mantissa the two end points do so too.  k is   *)
(* the position of the decimal point: the value is 0.d1 d2 ... dn * 10^k.  *)
(***************************************************************************)
\* 2^52: the mantissa of a power of two, whose lower neighbour is half as far
\* away as its upper neighbour
BigPow52 == BigShl(<<1>>, 52)

ReprStart(x) ==
    LET u == IF x.m = BigPow52 THEN 2 ELSE 1
        up == IF x.e > 0 THEN x.e ELSE 0
        down == IF x.e < 0 THEN -x.e ELSE 0
    IN  [r |-> BigShl(x.m, up + u), s |-> BigShl(<<1>>, down + u),
         mp |-> BigShl(<<1>>, up + u - 1), mm |-> BigShl(<<1>>, up), k |-> 0]

\* r / s + mp / s reaches 1
ReprHigh(st, even) ==
    IF even THEN BigCmp(BigAdd(st.r, st.mp), st.s) >= 0
    ELSE BigCmp(BigAdd(st.r, st.mp), st.s) > 0

\* r / s is within mm / s of 0
ReprLow(st, even) ==
    IF even THEN BigCmp(st.r, st.mm) <= 0 ELSE BigCmp(st.r, st.mm) < 0

\* The value divided by 10 as long as it reaches 1
RECURSIVE ReprScaleUp(_, _)
ReprScaleUp(st, even) ==
    IF ReprHigh(st, even)
    THEN ReprScaleUp([st EXCEPT !.s = BigMulSmall(st.s, 10), !.k = st.k + 1], even)
    ELSE st

ReprTimes10(st) ==
    [st EXCEPT !.r = BigMulSmall(st.r, 10), !.mp = BigMulSmall(st.mp, 10),
               !.mm = BigMulSmall(st.mm, 10), !.k = st.k - 1]

\* The value multiplied by 10 as long as it stays below 1
RECURSIVE ReprScaleDown(_, _, _)
ReprScaleDown(st, next, even) ==
    IF ReprHigh(next, even) THEN st ELSE ReprScaleDown(next, ReprTimes10(next), even)

\* a mod s for a < 10 * s
RECURSIVE BigRem(_, _)
BigRem(a, s) == IF BigCmp(a, s) < 0 THEN a ELSE BigRem(BigSub(a, s), s)

\* The state after the next digit was taken off
ReprNext(st) ==
    [st EXCEPT !.r = BigRem(BigMulSmall(st.r, 10), st.s), !.mp = BigMulSmall(st.mp, 10),
               !.mm = BigMulSmall(st.mm, 10)]

\* The number of digits generated until the digits read back as the double
RECURSIVE ReprDigits(_, _)
ReprDigits(st, even) ==
    IF ReprLow(st, even) \/ ReprHigh(st, even) THEN 1
    ELSE 1 + ReprDigits(ReprNext(st), even)

\* The number of digits the scaled state generates, with the position of the
\* decimal point
ReprCount(st, even) == [n |-> ReprDigits(ReprNext(st), even), decpt |-> st.k]

\* The state scaled to a value from 1/10 to 1
ReprScaled(st, even) == ReprScaleDown(st, ReprTimes10(st), even)

\* The shortest digits of a double that is not zero
ReprShortest(st, even) == ReprCount(ReprScaled(ReprScaleUp(st, even), even), even)

\* The characters of the digits laid out: with an exponent of at least two
\* digits when the decimal point is more than 16 places right or more than 3
\* places left of the first digit, else with zeros filled in and ".0" after a
\* whole number
ReprTextLen(n, decpt) ==
    IF decpt > 16 \/ decpt < -3
    THEN (IF n = 1 THEN 1 ELSE n + 1) + 2 + Max(2, Digits(Abs(decpt - 1)))
    ELSE IF decpt <= 0 THEN 2 - decpt + n
    ELSE IF decpt >= n THEN decpt + 2
    ELSE n + 1

ReprLenOf(d) == ReprTextLen(d.n, d.decpt)

\* len(repr(x)) of a double x
FReprLen(x) ==
    IF x.m = <<>> THEN 3
    ELSE ReprLenOf(ReprShortest(ReprStart(x), BigBit(x.m, 0) = 0))
         + (IF x.s < 0 THEN 1 ELSE 0)

\* len(repr(x)) of the readings of the clock, computed once
ReprLens == [x \in {ClockTimes[t] : t \in DOMAIN ClockTimes} |-> FReprLen(x)]

\* len(repr(timestamp)) of an entry's timestamp
TimestampLen(x) == IF x \in DOMAIN ReprLens THEN ReprLens[x] ELSE FReprLen(x)

\* The characters json.dump(self._meta, f, indent=2) writes for one entry,
\* the comma or brace and the newline after it included: the key and the file
\* name as JSON strings, the timestamp as repr writes it, rows, and 57
\* characters of names, punctuation and indentation
EntryTextLen(ck, entry) ==
    57 + JsonStrLen(ck) + JsonStrLen(entry.file) + TimestampLen(entry.timestamp)
       + Digits(entry.rows)

RECURSIVE EntriesTextLen(_, _)
EntriesTextLen(meta, keys) ==
    IF keys = {} THEN 0
    ELSE LET ck == CHOOSE ck \in keys : TRUE
         IN  EntryTextLen(ck, meta[ck]) + EntriesTextLen(meta, keys \ {ck})

\* The length of the file's text in characters: "{}" for no entry, else
\* "{", a newline and the entries
TextLen(file) ==
    IF Unparsable(file) THEN file[<<>>] ELSE 2 + EntriesTextLen(file, DOMAIN file)

\* What a write of the text new from offset 0 leaves in a file that holds
\* old: a longer old text keeps its tail behind the new text
Overwritten(old, new) ==
    IF TextLen(old) > TextLen(new) THEN BrokenFile(TextLen(old)) ELSE new

\* _load_meta: the file's entries, {} when the file does not exist; json.load
\* raises JSONDecodeError on a text that is no JSON document
load_meta(file) ==
    IF Unparsable(file) THEN [k |-> "JSONDecodeError", v |-> EmptyDict]
    ELSE [k |-> "dict", v |-> file]

\* A Parquet file that pd.read_parquet cannot read: what a to_parquet that
\* raised part-way left behind
PartialFile == Table({"partial"}, <<>>)

\* DataCache.get at time.time() = now: the table, or None; a file that cannot
\* be read raises inside the try block and get returns None
cache_get(meta, files, now, namespace, key, ttl_minutes) ==
    LET ck == cache_key(namespace, key)
    IN  IF ck \notin DOMAIN meta THEN None
        ELSE IF FCmp(FSub(now, meta[ck].timestamp), FInt(ttl_minutes * 60)) > 0 THEN None
        ELSE IF meta[ck].file \notin DOMAIN files THEN None
        ELSE IF files[meta[ck].file] = PartialFile THEN None
        ELSE [k |-> "table", v |-> files[meta[ck].file]]

\* A mutant of MetaAfterPut: the file is read again before the entry is added
MetaAfterPutReread(own, file, ck, entry) == DictPut(file, ck, entry)

\* DataCache.put: self._meta[cache_key] = {...} on the instance's own copy
MetaAfterPut(own, file, ck, entry) == DictPut(own, ck, entry)

\* The metadata entry put writes at time.time() = now
MetaEntry(namespace, key, table, now) ==
    [file |-> FileName(namespace, key), timestamp |-> now, rows |-> Len(table.rows)]

\* DataCache.clear: the keys it removes from self._meta
KeysToRemove(meta, namespace) ==
    IF namespace = None THEN DOMAIN meta
    ELSE {ck \in DOMAIN meta : StartsWith(ck, namespace.v \o <<Colon>>)}

\* DataCache.clear: the files it unlinks
FilesToUnlink(meta, files, namespace) ==
    IF namespace = None THEN DOMAIN files
    ELSE {meta[ck].file : ck \in KeysToRemove(meta, namespace)}

(***************************************************************************)
(* The constructors of the credentialed providers.  An object is a record  *)
(* of its attributes; reading an attribute it lacks raises AttributeError. *)
(***************************************************************************)
\* DataSettings(): the fields of the class, with massive_api_key as loaded
DataSettings(massive_api_key) ==
    [alphavantage_api_key |-> "", massive_api_key |-> massive_api_key,
     yahoo_cache_ttl_minutes |-> 5, finviz_cache_ttl_minutes |-> 10,
     cache_dir |-> "~/.tradekit/cache"]

\* An environment variable that is not set
Unset == [set |-> FALSE, v |-> ""]

\* os.environ.get(name, default)
EnvironGet(env, name, default) == IF env[name].set THEN env[name].v ELSE default

\* a or b on strings: the empty string is falsy
StrOr(a, b) == IF a # "" THEN a ELSE b

Constructed == [outcome |-> "constructed", names |-> <<>>]

\* raise ValueError(message); names are the variables the message names
ValueError(names) == [outcome |-> "ValueError", names |-> names]

\* reading obj.name on an object without that attribute
AttributeError(name) == [outcome |-> "AttributeError", names |-> <<name>>]

\* MassiveProvider.__init__
MassiveProvider(data, env) ==
    LET api_key == StrOr(data.massive_api_key, EnvironGet(env, "MASSIVE_API_KEY", ""))
    IN  IF api_key = "" THEN ValueError(<<"MASSIVE_API_KEY">>) ELSE Constructed

\* BacktestProvider.__init__; each settings.data.<name> is an attribute read
BacktestProvider(data, env) ==
    IF "backtest_access_key" \notin DOMAIN data THEN AttributeError("backtest_access_key")
    ELSE IF "backtest_secret_key" \notin DOMAIN data THEN AttributeError("backtest_secret_key")
    ELSE LET access_key == StrOr(data["backtest_access_key"],
                                 EnvironGet(env, "BACKTEST_ACCESS_KEY", ""))
             secret_key == StrOr(data["backtest_secret_key"],
                                 EnvironGet(env, "BACKTEST_SECRET_KEY", ""))
         IN  IF access_key = "" \/ secret_key = ""
             THEN ValueError(<<"BACKTEST_ACCESS_KEY", "BACKTEST_SECRET_KEY">>)
             ELSE IF "backtest_bucket" \notin DOMAIN data THEN AttributeError("backtest_bucket")
             ELSE IF "backtest_endpoint" \notin DOMAIN data
                  THEN AttributeError("backtest_endpoint")
             ELSE Constructed

(***************************************************************************)
(* scan_watchlist.  The YAML file is missing, or a dict from watchlist     *)
(* names to values; a value is a list of tickers or something else.        *)
(***************************************************************************)
\* A YAML value that is a list
ListValue(list) == [list |-> TRUE, tickers |-> list]

\* A YAML value that is not a list (null, a scalar, a dict)
OtherValue == [list |-> FALSE, tickers |-> <<>>]

MissingFile == [exists |-> FALSE, data |-> EmptyDict]

YamlFile(data) == [exists |-> TRUE, data |-> data]

\* Settings.load_watchlists: name -> list of tickers
load_watchlists(file) ==
    IF ~file.exists THEN [name \in {"default"} |-> <<>>]
    ELSE [name \in DOMAIN file.data |->
             IF file.data[name].list THEN file.data[name].tickers ELSE <<>>]

\* d.get(k, default) on a dict
DictGet(d, k, default) == IF k \in DOMAIN d THEN d[k] ELSE default

\* A mutant of WatchlistTickers: an unknown name falls back to the default list
WatchlistTickersOrDefault(watchlists, name) ==
    DictGet(watchlists, name, DictGet(watchlists, "default", <<>>))

\* watchlists.get(watchlist_name, [])
WatchlistTickers(watchlists, name) == DictGet(watchlists, name, <<>>)

\* scan_watchlist(settings, watchlist_name, provider); fetch maps a ticker to
\* what provider.get_premarket does for it
scan_watchlist(file, name, fetch) ==
    LET list == WatchlistTickers(load_watchlists(file), name)
    IN  IF list = <<>> THEN EmptyFrame
        ELSE LET premarket_data == get_multiple_premarket([i \in 1..Len(list) |-> fetch[list[i]]])
             IN  IF premarket_data = <<>> THEN EmptyFrame
                 ELSE Table(PremarketColumns, SortByAbsGap(premarket_data))

(***************************************************************************)
(* The rows and weights the scoring specification draws from.              *)
(***************************************************************************)
EmptyRow == [c \in Columns |-> Absent]

Cells(S) == {Absent, NaN} \cup {Num(x) : x \in S}

\* Rows that vary the momentum columns over every branch and its edges
RowsMomentum ==
    {[EmptyRow EXCEPT !["rsi"] = a, !["macd_histogram"] = b, !["stoch_k"] = c,
                      !["stoch_d"] = d, !["roc_10"] = e] :
        a \in Cells({25, 30, 35, 40, 60, 65, 70, 75}),
        b \in Cells({-1, 0, 1}),
        c \in Cells({15, 40, 60, 85}),
        d \in Cells({50}),
        e \in Cells({-6, -5, 0, 3, 5, 6})}

\* Rows that vary close and the moving averages
RowsTrend ==
    {[EmptyRow EXCEPT !["close"] = a, !["ema_9"] = b, !["ema_20"] = c,
                      !["sma_50"] = d, !["sma_200"] = e] :
        a \in Cells({0, 100}),
        b \in Cells({0, 90, 98, 110}),
        c \in Cells({0, 95, 100, 105}),
        d \in Cells({92, 108}),
        e \in Cells({90, 110})}

\* Rows that vary relative volume (tenths), vwap and close
RowsVolume ==
    {[EmptyRow EXCEPT !["relative_volume"] = a, !["vwap"] = b, !["close"] = c] :
        a \in Cells({4, 5, 10, 15, 16, 20, 21, 30, 31}),
        b \in Cells({0, 90, 100, 110}),
        c \in Cells({0, 100})}

\* Rows whose close lies above every average it holds, the averages in every
\* relative order, some of them missing, NaN or zero
RowsAbove ==
    {[EmptyRow EXCEPT !["close"] = Num(100), !["ema_9"] = b, !["ema_20"] = c,
                      !["sma_50"] = d, !["sma_200"] = e] :
        b \in Cells({0, 90, 95, 98}),
        c \in Cells({0, 90, 95, 98}),
        d \in Cells({0, 90, 95, 98}),
        e \in Cells({0, 90})}

\* Rows with every column present, spanning weak to strong setups
RowsMixed ==
    {[rsi |-> Num(a), macd_histogram |-> Num(b), stoch_k |-> Num(c),
      stoch_d |-> Num(50), roc_10 |-> Num(d), close |-> Num(100),
      ema_9 |-> Num(e), ema_20 |-> Num(f), sma_50 |-> Num(g),
      sma_200 |-> Num(g), relative_volume |-> Num(h), vwap |-> Num(i)] :
        a \in {35, 50, 75}, b \in {-1, 1}, c \in {40, 60}, d \in {-6, 6},
        e \in {98, 110}, f \in {95, 105}, g \in {92, 108},
        h \in {4, 10, 31}, i \in {90, 110}}

\* Dicts that leave keys out (the missing ones fall back to the defaults)
PartialWeights ==
    {Dict(a, b, c) : a \in {Absent, Num(100)}, b \in {Absent, Num(100)},
                     c \in {Absent, Num(100)}}

\* Dicts that give all three weights, in multiples of 0.25
FullWeights ==
    {Dict(Num(a), Num(b), Num(c)) : a \in {-25, 25, 50}, b \in {25, 50},
                                    c \in {0, 25, 50}}

WeightConfigs == {NoneWeights} \cup PartialWeights \cup FullWeights

ScoreIdle == row = EmptyRow /\ weights = NoneWeights /\ score = NoScore

\* No pivots computed yet
NoPivots == [pivot |-> -1, r1 |-> -1, r2 |-> -1, r3 |-> -1, s1 |-> -1, s2 |-> -1, s3 |-> -1, computed |-> FALSE]

PivotIdle == hlc = [high |-> 0, low |-> 0, close |-> 0] /\ pivots = NoPivots

\* cluster_levels not called yet
NotClustered == <<[level |-> -1, strength |-> 0]>>

ClusterIdle == levels = <<>> /\ tolerance_pct = 0 /\ clusters = NotClustered

\* apply_filters not called yet
NotFiltered == Table({}, <<>>)

FilterIdle == df = Table({}, <<>>) /\ chain = <<>> /\ filtered = NotFiltered

RankIdle ==
    /\ tickers = <<>> /\ fetched = <<>> /\ results = <<>> /\ ranked = <<>>
    /\ rank_pc = "idle"

NoOptions == [min_gap |-> None, min_volume |-> None, max_price |-> None]

EmptyConfig == [key \in ConfigKeys |-> Absent]

ScanIdle ==
    /\ cli = NoOptions /\ settings = ScreenerSettings /\ filter_config = EmptyConfig
    /\ fetches = <<>> /\ scan_df = EmptyFrame /\ scan_pc = "idle"

NoCall == [op |-> "none", inst |-> 0, namespace |-> <<>>, key |-> <<>>, ttl_minutes |-> 0,
           result |-> None]

CacheIdle ==
    /\ meta_file = EmptyDict /\ parquet_files = EmptyDict
    /\ cache_meta = <<>> /\ clock = 0 /\ last_put = EmptyDict /\ cache_op = NoCall
    /\ put_pc = <<>>

EnvNames == {"MASSIVE_API_KEY", "BACKTEST_ACCESS_KEY", "BACKTEST_SECRET_KEY"}

NotConstructed == [outcome |-> "none", names |-> <<>>]

ProviderIdle ==
    /\ provider = "none" /\ data_settings = DataSettings("")
    /\ environ = [n \in EnvNames |-> Unset] /\ constructed = NotConstructed

WatchIdle ==
    /\ watch_file = MissingFile /\ watchlist_name = "default" /\ watch_fetches = EmptyDict
    /\ watch_df = EmptyFrame /\ watch_pc = "idle"

NoLevels == [resistance |-> <<>>, support |-> <<>>]

LevelIdle ==
    /\ bars = <<>> /\ order = 0 /\ current_price = 0 /\ n_nearest = 0
    /\ sr_levels = NoLevels /\ nearest = NoLevels /\ level_pc = "idle"

ProfileIdle ==
    /\ close_series = <<>> /\ volume_series = <<>> /\ bins = 0
    /\ profile = <<>> /\ profile_pc = "idle"

NoReply == [k |-> "none"]

NoExtremes == [peaks |-> <<>>, troughs |-> <<>>]

ExtremeIdle ==
    /\ series = <<>> /\ ext_order = 0 /\ extremes = NoExtremes /\ ext_pc = "idle"

BatchIdle ==
    /\ batch_call = <<>> /\ batch_tickers = <<>> /\ batch_fetches = <<>> /\ batch_i = 0
    /\ batch_visited = <<>> /\ batch_results = <<>> /\ batch_pc = "idle"

PremarketIdle ==
    /\ pm_provider = "none" /\ pm_info = NoReply /\ pm_record = NoReply /\ pm_pc = "idle"

InitScore ==
    /\ BatchIdle
    /\ ExtremeIdle
    /\ PremarketIdle
    /\ ProfileIdle
    /\ LevelIdle
    /\ WatchIdle
    /\ ProviderIdle
    /\ CacheIdle
    /\ PivotIdle
    /\ ClusterIdle
    /\ FilterIdle
    /\ RankIdle
    /\ ScanIdle
    /\ \/ row \in RowsMomentum \cup RowsTrend \cup RowsVolume \cup RowsAbove /\ weights = NoneWeights
       \/ row \in RowsMixed /\ weights \in WeightConfigs
    /\ score = NoScore

\* One call of compute_composite_score(row, weights)
Score ==
    /\ score = NoScore
    /\ score' = compute_composite_score(row, weights)
    /\ UNCHANGED <<row, weights, pivotVars, clusterVars, filterVars, rankVars, scanVars, cacheVars, providerVars, watchVars, levelVars, profileVars, premarketVars, extremeVars, batchVars>>

NextScore == Score

SpecScore == InitScore /\ [][NextScore]_vars

(***************************************************************************)
(* Claims about the scoring engine, checked under SpecScore.               *)
(***************************************************************************)
Scored == score # NoScore

\* C1: for every row and every weights configuration (default, partial or
\* caller-supplied) the returned total lies in [0, 100], i.e. 0..1000 tenths.
C1_TotalWithinBounds == Scored => (0 <= score.total /\ score.total <= 1000)

\* C2: the grade matches the returned total by the fixed thresholds: A iff
\* total >= 80, B iff 65 <= total < 80, C iff 50 <= total < 65, F iff
\* total < 50, and no other grade is produced.
C2_GradeMatchesTotal ==
    Scored =>
        /\ score.grade \in {"A", "B", "C", "F"}
        /\ score.grade = "A" <=> score.total >= 800
        /\ score.grade = "B" <=> (650 <= score.total /\ score.total < 800)
        /\ score.grade = "C" <=> (500 <= score.total /\ score.total < 650)
        /\ score.grade = "F" <=> score.total < 500

\* C2 witness: a total exactly on the B threshold (65.0) was graded
C2_Witness == Scored /\ score.total = 650 /\ score.grade = "B"

\* C3: each of the three sub-scores lies in [0, 100] for every row, whatever
\* mix of present, absent and NaN indicator values it holds.
C3_SubScoresWithinBounds ==
    /\ 0 <= score_momentum(row) /\ score_momentum(row) <= 100
    /\ 0 <= score_trend(row) /\ score_trend(row) <= 100
    /\ 0 <= score_volume(row) /\ score_volume(row) <= 100
    /\ Scored => /\ score.momentum \in 0..1000
                 /\ score.trend \in 0..1000
                 /\ score.volume \in 0..1000

\* C3 witness: a row whose momentum factors add up to 105 was scored and the
\* sub-score came back as 100, with a NaN and an absent column in the row
C3_Witness ==
    /\ Scored
    /\ 50 + RsiPoints(row) + MacdPoints(row) + StochPoints(row) + RocPoints(row) = 105
    /\ score.momentum = 1000
    /\ \E c \in Columns : row[c] = Absent

\* The moving averages score_trend reads
Averages == {"ema_9", "ema_20", "sma_50", "sma_200"}

\* The average is one the loop of score_trend counts: not NaN and positive
Available(r, ma_col) == notna(RowGet(r, ma_col, None)) /\ r[ma_col].v > 0

\* The close is strictly above every available average, at least one available
AboveAvailable(r) ==
    /\ notna(RowGet(r, "close", Num(0)))
    /\ \E ma_col \in Averages : Available(r, ma_col)
    /\ \A ma_col \in Averages : Available(r, ma_col) => r["close"].v > r[ma_col].v

\* C20 as stated: score_trend is strictly greater than 50 for every row whose
\* close is strictly above every available moving average (at least one
\* available), whatever the relative order of the averages.
C20_AboveAveragesAbove50 ==
    /\ AboveAvailable(row) => score_trend(row) > 50
    /\ (Scored /\ AboveAvailable(row)) => score.trend > 500

\* C20 amended: score_trend is strictly greater than 50 for every row whose
\* close is strictly above every available moving average (at least one
\* available), whatever the relative order of the averages, provided none of
\* ema_9, ema_20 and sma_50 holds a value that is zero or negative: such a
\* value earns no points in the loop but still counts in the alignment test.
C20_AbovePositiveAveragesAbove50 ==
    LET positive == \A ma_col \in Averages \ {"sma_200"} :
                        notna(RowGet(row, ma_col, None)) => row[ma_col].v > 0
    IN  /\ (AboveAvailable(row) /\ positive) => score_trend(row) > 50
        /\ (Scored /\ AboveAvailable(row) /\ positive) => score.trend > 500

\* A row with ema_9 < ema_20 < sma_50 < close and no sma_200 was scored: the
\* three averages earn 15 points, the bearish alignment costs 10
C20_Witness ==
    /\ Scored
    /\ AboveAvailable(row)
    /\ row["sma_200"] = Absent
    /\ notna(row["ema_9"]) /\ notna(row["ema_20"]) /\ notna(row["sma_50"])
    /\ 0 < row["ema_9"].v
    /\ row["ema_9"].v < row["ema_20"].v
    /\ row["ema_20"].v < row["sma_50"].v
    /\ score.trend = 550

\* The columns that hold indicators: every column the scores read but close
Indicators == Columns \ {"close"}

\* The three sub-scores of a row
SubScores(r) == <<score_momentum(r), score_trend(r), score_volume(r)>>

\* No indicator of the row is usable: each is absent or NaN
NoUsableIndicator(r) == \A c \in Indicators : r[c] \in {Absent, NaN}

\* C28: an indicator that is absent from the row contributes to its sub-score
\* what the same indicator contributes when it is present with a NaN value,
\* namely nothing; a row with no usable indicator gets momentum = trend =
\* volume = 50 and, under the default weights, total 50.0 and grade C.
C28_MissingIndicatorNeutral ==
    Scored =>
        /\ \A c \in Indicators :
              row[c] = Absent => SubScores(row) = SubScores([row EXCEPT ![c] = NaN])
        /\ NoUsableIndicator(row) =>
              /\ score.momentum = 500 /\ score.trend = 500 /\ score.volume = 500
              /\ weights = NoneWeights => (score.total = 500 /\ score.grade = "C")

(***************************************************************************)
(* Pivot points: the inputs are drawn from a grid of small prices, where   *)
(* rounding to cents matters, and from the prices around 100.00.           *)
(***************************************************************************)
MaxPivotCents == 6

PivotPrices == (0..MaxPivotCents) \cup {9000, 10000, 11000}

InitPivot ==
    /\ BatchIdle
    /\ ExtremeIdle
    /\ PremarketIdle
    /\ ProfileIdle
    /\ LevelIdle
    /\ WatchIdle
    /\ ProviderIdle
    /\ CacheIdle
    /\ ScoreIdle
    /\ RankIdle
    /\ ScanIdle
    /\ ClusterIdle
    /\ FilterIdle
    /\ hlc \in [high : PivotPrices, low : PivotPrices, close : PivotPrices]
    /\ pivots = NoPivots

\* One call of compute_pivot_points(high, low, close)
Pivot ==
    /\ ~pivots.computed
    /\ pivots' = [computed |-> TRUE] @@ compute_pivot_points(hlc.high, hlc.low, hlc.close)
    /\ UNCHANGED <<scoreVars, hlc, clusterVars, filterVars, rankVars, scanVars, cacheVars, providerVars, watchVars, levelVars, profileVars, premarketVars, extremeVars, batchVars>>

NextPivot == Pivot

SpecPivot == InitPivot /\ [][NextPivot]_vars

\* C4 as claimed: for any inputs with high > low, and any close, the returned
\* two-decimal values satisfy r1 > pivot > s1.
C4_AnyClose ==
    (pivots.computed /\ hlc.high > hlc.low) =>
        (pivots.r1 > pivots.pivot /\ pivots.pivot > pivots.s1)

\* C4 amended: for prices in whole cents with high > low and
\* low <= close <= high, the returned values satisfy r1 >= pivot >= s1, and
\* r1 > pivot > s1 whenever high - low is at least 0.03.
C4_CloseWithinRange ==
    (pivots.computed /\ hlc.high > hlc.low /\ hlc.low <= hlc.close /\ hlc.close <= hlc.high) =>
        /\ pivots.r1 >= pivots.pivot /\ pivots.pivot >= pivots.s1
        /\ hlc.high - hlc.low >= 3 => (pivots.r1 > pivots.pivot /\ pivots.pivot > pivots.s1)

\* C4 witness: high 110, low 90, close 100 gave pivot 100.00 between s1 and r1
C4_Witness ==
    /\ pivots.computed
    /\ hlc = [high |-> 11000, low |-> 9000, close |-> 10000]
    /\ pivots.pivot = 10000 /\ pivots.r1 = 11000 /\ pivots.s1 = 9000

(***************************************************************************)
(* Level clustering: the levels are drawn from prices around 100.00 and    *)
(* from 110.00, 0.00 and -100.00, in any order, with tolerances of 0.5%,   *)
(* 1.0% and 1.5%; the list of the test suite is one of the inputs, and so  *)
(* is a list of four prices a cent apart whose sum the two kinds of sum()  *)
(* round differently.  A level of 0.00 that another level follows makes    *)
(* the call raise, and a level after a negative one never starts a cluster.*)
(***************************************************************************)
MaxLevels == 4

LevelValues == {-10000, 0, 10000, 10050, 10100, 10200, 11000}

Tolerances == {5, 10, 15}

TestLevels == <<10000, 10050, 10100, 11000, 11050>>

CentApartLevels == <<18559, 18562, 18561, 18560>>

SeqsUpTo(S, n) == UNION {[1..k -> S] : k \in 0..n}

InitCluster ==
    /\ BatchIdle
    /\ ExtremeIdle
    /\ PremarketIdle
    /\ ProfileIdle
    /\ LevelIdle
    /\ WatchIdle
    /\ ProviderIdle
    /\ CacheIdle
    /\ ScoreIdle
    /\ RankIdle
    /\ ScanIdle
    /\ PivotIdle
    /\ FilterIdle
    /\ levels \in SeqsUpTo(LevelValues, MaxLevels) \cup {TestLevels, CentApartLevels}
    /\ tolerance_pct \in Tolerances
    /\ clusters = NotClustered

\* One call of cluster_levels(levels, tolerance_pct), under either kind of
\* interpreter
Cluster ==
    /\ clusters = NotClustered
    /\ \E kind \in SumKinds : clusters' = cluster_levels(levels, tolerance_pct, kind)
    /\ UNCHANGED <<scoreVars, pivotVars, levels, tolerance_pct, filterVars, rankVars, scanVars, cacheVars, providerVars, watchVars, levelVars, profileVars, premarketVars, extremeVars, batchVars>>

NextCluster == Cluster

SpecCluster == InitCluster /\ [][NextCluster]_vars

\* The call of cluster_levels ended, with a list or with an exception
ClusterCalled == clusters # NotClustered

\* cluster_levels returned a list
Clustered == ClusterCalled /\ clusters # Raised("ZeroDivisionError")

\* The gap from a to the next sorted level b is more than tol (tenths of a
\* percent) percent of a
GapExceeds(a, b, tol) == (b - a) * 1000 > tol * a

\* The positions i of the sorted list after which a cluster of the result ends
ClusterEnds(cs) == {SumSeq([j \in 1..k |-> cs[j].strength]) : k \in 1..Len(cs)}

\* The positions i whose successor differs from sorted level i by more than the tolerance
WideGaps(lv, tol) ==
    {i \in 1..(Len(lv) - 1) : GapExceeds(sorted(lv)[i], sorted(lv)[i + 1], tol)}

\* The wide gaps behind a positive level
PositiveWideGaps(lv, tol) == {i \in WideGaps(lv, tol) : sorted(lv)[i] > 0}

\* A level of 0.0 that another level follows in sorted order
ZeroBeforeLast(lv) == \E i \in 1..(Len(lv) - 1) : sorted(lv)[i] = 0

MaxRows == 2

Tickers == <<"AAA", "BBB", "CCC", "DDD">>

AllColumns == {"ticker", "pre_price", "price", "pre_volume", "gap_pct", "avg_volume", "float_shares"}

\* The values a candidate row is drawn from (ticker aside)
CandidateValues ==
    [pre_price : {3, 10}, pre_volume : {100, 500}, gap_pct : {-8, 2}]

Candidate(ticker, c) ==
    [ticker |-> ticker, pre_price |-> c.pre_price, price |-> c.pre_price,
     pre_volume |-> c.pre_volume, gap_pct |-> c.gap_pct,
     avg_volume |-> 1000, float_shares |-> 5000]

\* Tables of n rows with distinct tickers in a fixed order
CandidateRows(n) ==
    {[i \in 1..n |-> Candidate(Tickers[i], cs[i])] : cs \in [1..n -> CandidateValues]}

\* The column sets of the tables: all columns, price in place of pre_price,
\* and tables that lack the column one of the filters reads
ColumnSets ==
    {AllColumns \ {"price"}, AllColumns \ {"pre_price"},
     AllColumns \ {"price", "gap_pct"}, AllColumns \ {"price", "pre_volume"},
     AllColumns \ {"price", "pre_price"}}

FilterTriples ==
    {<<price_filter(a[1], a[2]), volume_filter(b, "pre_volume"), gap_filter(c)>> :
        a \in {<<5, Inf>>, <<0, 8>>}, b \in {200, 600}, c \in {3, 9}}

\* The six orders of three filters
Orders == {<<1, 2, 3>>, <<1, 3, 2>>, <<2, 1, 3>>, <<2, 3, 1>>, <<3, 1, 2>>, <<3, 2, 1>>}

\* The four ways to split a list of three into consecutive non-empty lists
Groupings(q) ==
    {<<q>>, <<SubSeq(q, 1, 1), SubSeq(q, 2, 3)>>, <<SubSeq(q, 1, 2), SubSeq(q, 3, 3)>>,
     <<SubSeq(q, 1, 1), SubSeq(q, 2, 2), SubSeq(q, 3, 3)>>}

RECURSIVE Flatten(_)
Flatten(groups) == IF groups = <<>> THEN <<>> ELSE Head(groups) \o Flatten(Tail(groups))

\* The chain starts as the single list price, volume, gap
InitFilter ==
    /\ BatchIdle
    /\ ExtremeIdle
    /\ PremarketIdle
    /\ ProfileIdle
    /\ LevelIdle
    /\ WatchIdle
    /\ ProviderIdle
    /\ CacheIdle
    /\ ScoreIdle
    /\ RankIdle
    /\ ScanIdle
    /\ PivotIdle
    /\ ClusterIdle
    /\ \E n \in 0..MaxRows, cols \in ColumnSets :
          \E rows \in CandidateRows(n) : df = Table(cols, rows)
    /\ \E fs \in FilterTriples : chain = <<fs>>
    /\ filtered = NotFiltered

\* apply_filters over the same three filters in another order and grouping
ApplyChain ==
    /\ filtered = NotFiltered
    /\ \E o \in Orders :
          \E g \in Groupings([i \in 1..3 |-> Flatten(chain)[o[i]]]) :
              /\ chain' = g
              /\ filtered' = ApplyGroups(df, g)
    /\ UNCHANGED <<scoreVars, pivotVars, clusterVars, df, rankVars, scanVars, cacheVars, providerVars, watchVars, levelVars, profileVars, premarketVars, extremeVars, batchVars>>

NextFilter == ApplyChain

SpecFilter == InitFilter /\ [][NextFilter]_vars

RowSet(t) == {t.rows[i] : i \in 1..Len(t.rows)}

\* The filters of a chain by kind, in the order price, volume, gap
Canonical(groups) ==
    LET fs == Flatten(groups)
        Of(kind) == CHOOSE f \in {fs[i] : i \in 1..Len(fs)} : f.kind = kind
    IN  <<Of("price"), Of("volume"), Of("gap")>>

\* The first filter of the chain removed every row of a non-empty table
StoppedEarly == ~Empty(df) /\ Empty(ApplyFilter(Flatten(chain)[1], df))

\* C6: apply_filters returns the same set of rows for every order and every
\* grouping of a price, a volume and a gap filter, also when an intermediate
\* result is empty and the chain stops early.
C6_OrderIndependent ==
    filtered # NotFiltered =>
        /\ RowSet(filtered) = RowSet(apply_filters(df, Canonical(chain)))
        /\ filtered.cols = df.cols

\* C6 witness: a chain in another order than price, volume, gap, split into
\* two calls, stopped early at its first filter
C6_Witness ==
    /\ filtered # NotFiltered
    /\ Len(chain) = 2 /\ Flatten(chain) # Canonical(chain)
    /\ StoppedEarly /\ Empty(filtered)

(***************************************************************************)
(* Ranking: up to MaxTickers tickers; the weights are the default or a     *)
(* caller's dict; the latest rows span a weak, a neutral and a strong      *)
(* setup, so that totals differ and, for equal rows, tie.                  *)
(***************************************************************************)
MaxTickers == 3

RankWeights == {NoneWeights, Dict(Num(50), Num(25), Num(25))}

StrongRow ==
    [EmptyRow EXCEPT !["rsi"] = Num(35), !["macd_histogram"] = Num(1), !["close"] = Num(100),
                     !["ema_9"] = Num(98), !["relative_volume"] = Num(31)]

WeakRow ==
    [EmptyRow EXCEPT !["rsi"] = Num(75), !["macd_histogram"] = Num(-1), !["close"] = Num(100),
                     !["ema_9"] = Num(110), !["relative_volume"] = Num(4)]

LatestRows == {EmptyRow, StrongRow, WeakRow}

HistoryLengths == {0, MinHistory - 1, MinHistory, 3 * MinHistory}

\* provider.get_quote(ticker)
Quote(ticker) == [name |-> ticker, price |-> 10, volume |-> 1000, avg_volume |-> 2000]

\* The classes a call of the iteration raises here: a TypeError of the
\* analysis, a ConnectionError of the network, and the two ways the process
\* is told to stop, which arrive during whatever call is running
RankExceptions == {TypeError, ConnectionError, KeyboardInterrupt, SystemExit}

\* No exception was raised
NoException == <<>>

\* What can happen to one ticker: a call raises an exception of some class
\* (get_history itself, or a later call, which a history of at least 20 rows
\* precedes), or the history and the latest row come back
Outcomes ==
    {[raised |-> st, exception |-> cls,
      history_rows |-> IF st = "get_history" THEN 0 ELSE MinHistory, latest |-> EmptyRow] :
            st \in Stages, cls \in RankExceptions}
    \cup {[raised |-> "none", exception |-> NoException, history_rows |-> n,
           latest |-> EmptyRow] :
            n \in {h \in HistoryLengths : Insufficient(h)}}
    \cup {[raised |-> "none", exception |-> NoException, history_rows |-> n, latest |-> r] :
            n \in {h \in HistoryLengths : ~Insufficient(h)}, r \in LatestRows}

InitRank ==
    /\ BatchIdle
    /\ ExtremeIdle
    /\ PremarketIdle
    /\ ProfileIdle
    /\ LevelIdle
    /\ WatchIdle
    /\ ProviderIdle
    /\ CacheIdle
    /\ ScanIdle
    /\ PivotIdle
    /\ ClusterIdle
    /\ FilterIdle
    /\ row = EmptyRow /\ score = NoScore /\ weights \in RankWeights
    /\ \E n \in 0..MaxTickers : tickers = SubSeq(Tickers, 1, n)
    /\ fetched = <<>> /\ results = <<>> /\ ranked = <<>>
    /\ rank_pc = "loop"

\* One iteration of the loop over tickers: an exception the except clause
\* does not catch leaves rank_candidates, and the tickers behind are not
\* visited
RankTicker ==
    /\ rank_pc = "loop"
    /\ Len(fetched) < Len(tickers)
    /\ \E o \in Outcomes :
        LET ticker == tickers[Len(fetched) + 1]
        IN  /\ fetched' = Append(fetched, [ticker |-> ticker] @@ o)
            /\ IF o.raised # "none"
               THEN /\ results' = results
                    /\ rank_pc' = IF Caught(o.raised, o.exception) THEN "loop" ELSE "raised"
               ELSE IF Insufficient(o.history_rows)
               THEN /\ results' = results
                    /\ rank_pc' = "loop"
               ELSE /\ results' = Append(results, ResultRow(ticker, Quote(ticker), o.latest, weights))
                    /\ rank_pc' = "loop"
    /\ UNCHANGED <<scoreVars, pivotVars, clusterVars, filterVars, scanVars, tickers, ranked, cacheVars, providerVars, watchVars, levelVars, profileVars, premarketVars, extremeVars, batchVars>>

\* After the loop: an empty table without results, else the sorted table
RankReturn ==
    /\ rank_pc = "loop"
    /\ Len(fetched) = Len(tickers)
    /\ ranked' = IF results = <<>> THEN <<>> ELSE SortByTotal(results)
    /\ rank_pc' = "done"
    /\ UNCHANGED <<scoreVars, pivotVars, clusterVars, filterVars, scanVars, tickers, fetched, results, cacheVars, providerVars, watchVars, levelVars, profileVars, premarketVars, extremeVars, batchVars>>

NextRank == RankTicker \/ RankReturn

SpecRank == InitRank /\ [][NextRank]_vars

\* The tickers that had at least 20 rows of history and raised nothing, in input order
Rankable == SelectSeq(fetched, LAMBDA f : f.raised = "none" /\ f.history_rows >= 20)

TickersOf(q) == {q[i].ticker : i \in 1..Len(q)}

\* The call that raised for the last ticker visited was interrupted by a
\* KeyboardInterrupt or a SystemExit
RankStopped ==
    /\ fetched # <<>>
    /\ fetched[Len(fetched)].raised \in Stages
    /\ ClassName(fetched[Len(fetched)].exception) \in
          {"builtins.KeyboardInterrupt", "builtins.SystemExit"}

C8_SortedByTotal ==
    rank_pc = "done" =>
        \A i \in 1..(Len(ranked) - 1) : ranked[i].total >= ranked[i + 1].total

\* C8 witness: three rows were ranked, the sort moved the last result to the
\* front, and the two rows behind it have equal totals
C8_Witness ==
    /\ rank_pc = "done" /\ Len(ranked) = 3
    /\ ranked[1] = results[3]
    /\ ranked[1].total > ranked[2].total /\ ranked[2].total = ranked[3].total

(***************************************************************************)
(* The scan command: Finviz returns up to MaxScanTickers tickers, the      *)
(* provider delivers a pre-market record for each or fails, the preset is  *)
(* one of a few dicts (the empty one for an unknown preset), and each      *)
(* override is given or not.                                               *)
(***************************************************************************)
MaxScanTickers == 3

\* Pre-market values: price in dollars, gap in percent, volumes and float
\* in thousands of shares
ScanValues ==
    {[pre_price |-> 10, gap_pct |-> 5, pre_volume |-> 500, avg_volume |-> 1000, float_shares |-> 5000],
     [pre_price |-> 10, gap_pct |-> -8, pre_volume |-> 500, avg_volume |-> 1000, float_shares |-> 5000],
     [pre_price |-> 3, gap_pct |-> 2, pre_volume |-> 100, avg_volume |-> 300, float_shares |-> 5000],
     [pre_price |-> 50, gap_pct |-> 4, pre_volume |-> 250, avg_volume |-> 1000, float_shares |-> 20000]}

\* provider.get_premarket(ticker): the dict it returns, or an exception
PremarketRecord(ticker, c) ==
    [ticker |-> ticker, pre_price |-> c.pre_price, gap_pct |-> c.gap_pct,
     pre_volume |-> c.pre_volume, avg_volume |-> c.avg_volume, float_shares |-> c.float_shares]

NoRecord == [pre_price |-> 0, gap_pct |-> 0, pre_volume |-> 0, avg_volume |-> 0, float_shares |-> 0]

Fetches(ticker) ==
    {[ok |-> FALSE, record |-> PremarketRecord(ticker, NoRecord)]}
    \cup {[ok |-> TRUE, record |-> PremarketRecord(ticker, c)] : c \in ScanValues}

Config(pairs) == [key \in ConfigKeys |-> IF key \in DOMAIN pairs THEN Num(pairs[key]) ELSE Absent]

\* The dicts presets.get(preset, {}) can give
Presets ==
    {EmptyConfig,
     Config([min_gap_pct |-> 3]),
     Config([min_price |-> 5, max_price |-> 100, min_premarket_volume |-> 200,
             min_gap_pct |-> 3, max_results |-> 1]),
     Config([max_price |-> 20, min_avg_volume |-> 500, max_float_millions |-> 10,
             max_results |-> 2])}

Option(S) == {None} \cup {Num(x) : x \in S}

Options == [min_gap : Option({6}), min_volume : Option({300}), max_price : Option({5})]

InitScan ==
    /\ BatchIdle
    /\ ExtremeIdle
    /\ PremarketIdle
    /\ ProfileIdle
    /\ LevelIdle
    /\ WatchIdle
    /\ ProviderIdle
    /\ CacheIdle
    /\ ScoreIdle
    /\ PivotIdle
    /\ ClusterIdle
    /\ FilterIdle
    /\ RankIdle
    /\ cli \in Options
    /\ settings = ScreenerSettings
    /\ filter_config \in Presets
    /\ \E n \in 0..MaxScanTickers :
          \E fs \in [1..n -> UNION {Fetches(Tickers[i]) : i \in 1..n}] :
              /\ \A i \in 1..n : fs[i] \in Fetches(Tickers[i])
              /\ fetches = fs
    /\ scan_df = EmptyFrame
    /\ scan_pc = "ready"

\* The scan command: the overrides are written to settings.screener, then
\* scan_premarket runs with these settings and the preset
Scan ==
    /\ scan_pc = "ready"
    /\ settings' = ApplyOverrides(settings, cli)
    /\ scan_df' = scan_premarket(settings', filter_config, fetches)
    /\ scan_pc' = "done"
    /\ UNCHANGED <<scoreVars, pivotVars, clusterVars, filterVars, rankVars, cli, filter_config, fetches, cacheVars, providerVars, watchVars, levelVars, profileVars, premarketVars, extremeVars, batchVars>>

NextScan == Scan

SpecScan == InitScan /\ [][NextScan]_vars

\* The candidates: the records the provider delivered, in Finviz order
ScanCandidates == get_multiple_premarket(fetches)

\* A candidate passes every filter the preset configures
PassesPreset(r, config) ==
    /\ Has(config, "min_price") => r.pre_price >= config["min_price"].v
    /\ Has(config, "max_price") => r.pre_price <= config["max_price"].v
    /\ Has(config, "min_premarket_volume") => r.pre_volume >= config["min_premarket_volume"].v
    /\ Has(config, "min_gap_pct") => Abs(r.gap_pct) >= config["min_gap_pct"].v
    /\ Has(config, "min_avg_volume") => r.avg_volume >= config["min_avg_volume"].v
    /\ Has(config, "max_float_millions") => r.float_shares <= config["max_float_millions"].v * 1000

PassingCandidates == {r \in RowSet(Table({}, ScanCandidates)) : PassesPreset(r, filter_config)}

\* The limit: the preset's max_results, else settings.screener.max_results
ResultLimit ==
    IF Has(filter_config, "max_results") THEN filter_config["max_results"].v
    ELSE settings.max_results

\* C9: scan_premarket returns candidates that pass every filter of the
\* preset, ordered by |gap_pct| non-increasing, truncated to at most
\* max_results rows, and no returned row has a smaller |gap_pct| than a
\* passing candidate that was left out.
C9_FilteredSortedTruncated ==
    scan_pc = "done" =>
        LET rows == scan_df.rows
            returned == RowSet(scan_df)
        IN  /\ returned \subseteq PassingCandidates
            /\ Cardinality(returned) = Len(rows)
            /\ Len(rows) = Min(ResultLimit, Cardinality(PassingCandidates))
            /\ \A i \in 1..(Len(rows) - 1) : Abs(rows[i].gap_pct) >= Abs(rows[i + 1].gap_pct)
            /\ \A r \in returned : \A c \in PassingCandidates \ returned :
                   Abs(r.gap_pct) >= Abs(c.gap_pct)

\* C9 witness: three candidates passed the preset's filters, the limit of 2
\* cut one off, and the row with the negative gap of -8% came first
C9_Witness ==
    /\ scan_pc = "done"
    /\ Cardinality(PassingCandidates) = 3 /\ ResultLimit = 2 /\ Len(scan_df.rows) = 2
    /\ scan_df.rows[1].gap_pct = -8 /\ scan_df.rows[1] # ScanCandidates[1]

\* C10: the scan command's overrides take effect: with --min-gap G every
\* returned candidate has |gap_pct| >= G, with --min-volume V pre_volume >= V,
\* with --max-price P price <= P, overriding the preset's thresholds.
C10_OverridesTakeEffect ==
    scan_pc = "done" =>
        \A r \in RowSet(scan_df) :
            /\ cli.min_gap.k = "num" => Abs(r.gap_pct) >= cli.min_gap.v
            /\ cli.min_volume.k = "num" => r.pre_volume >= cli.min_volume.v
            /\ cli.max_price.k = "num" => r.pre_price <= cli.max_price.v

(***************************************************************************)
(* The cache on one directory.  Three (namespace, key) pairs, two of which *)
(* differ only in "/" against "_"; two tables; a clock that runs up to     *)
(* MaxClock ticks of 60 seconds.                                           *)
(***************************************************************************)
CacheInstances == {1, 2}

\* ("q", "B/B"), ("q", "B_B") and ("h", "B_B")
CacheEntries ==
    {<< <<113>>, <<66, Slash, 66>> >>, << <<113>>, <<66, Underscore, 66>> >>,
     << <<104>>, <<66, Underscore, 66>> >>}

CacheNamespaces == {e[1] : e \in CacheEntries}

CacheTables == {Table({"close"}, <<[close |-> 1]>>), Table({"close"}, <<[close |-> 2]>>)}

TtlMinutes == {0, 1}

\* How put can end: it succeeds, or df.to_parquet raises and the exception
\* is logged
PutOutcomes == {"ok", "to_parquet"}

NeverPut == [k |-> "never", table |-> EmptyFrame, at |-> 0]

\* A process that is not inside put
NotPutting == [step |-> "idle", entry |-> <<>>, table |-> EmptyFrame]

\* A process inside put(entry, table), about to take the step
Putting(step, e, table) == [step |-> step, entry |-> e, table |-> table]

\* The entry was cleared, or a put on it failed
Touched == [k |-> "touched", table |-> EmptyFrame, at |-> 0]

\* DataCache(cache_dir): self._meta = self._load_meta().  A process that holds
\* an instance already may construct a new one in its place.
CacheOpen(i) ==
    /\ LET loaded == load_meta(meta_file)
       IN  IF loaded.k = "dict"
           THEN /\ cache_meta' = [cache_meta EXCEPT ![i] = Opened(loaded.v)]
                /\ cache_op' = NoCall
           ELSE /\ cache_meta' = cache_meta
                /\ cache_op' = [NoCall EXCEPT !.op = "open", !.inst = i,
                                              !.result = [k |-> loaded.k, v |-> 0]]
    /\ UNCHANGED <<scoreVars, pivotVars, clusterVars, filterVars, rankVars, scanVars,
                   meta_file, parquet_files, clock, put_pc, last_put, providerVars, watchVars, levelVars, profileVars, premarketVars, extremeVars, batchVars>>

\* put(e[1], e[2], table) on instance i
Put(i, e, table, outcome) ==
    /\ cache_meta[i].open
    /\ LET meta == MetaAfterPut(cache_meta[i].meta, meta_file, cache_key(e[1], e[2]),
                                MetaEntry(e[1], e[2], table, TimeAt(clock)))
       IN  /\ parquet_files' =
                 IF outcome = "to_parquet" THEN parquet_files
                 ELSE DictPut(parquet_files, FileName(e[1], e[2]), table)
           /\ cache_meta' =
                 IF outcome = "to_parquet" THEN cache_meta
                 ELSE [cache_meta EXCEPT ![i] = Opened(meta)]
           /\ meta_file' = IF outcome = "to_parquet" THEN meta_file ELSE meta
           /\ last_put' = [last_put EXCEPT ![e] =
                 IF outcome = "ok" THEN [k |-> "put", table |-> table, at |-> clock]
                 ELSE Touched]
    /\ cache_op' = NoCall
    /\ UNCHANGED <<scoreVars, pivotVars, clusterVars, filterVars, rankVars, scanVars, clock, put_pc, providerVars, watchVars, levelVars, profileVars, premarketVars, extremeVars, batchVars>>

\* put(namespace, key, df) on instance i
CachePut(i) ==
    \E e \in CacheEntries, table \in CacheTables, outcome \in PutOutcomes :
        Put(i, e, table, outcome)

\* get(e[1], e[2], ttl) on instance i
Get(i, e, ttl) ==
    /\ cache_meta[i].open
    /\ cache_op' = [op |-> "get", inst |-> i, namespace |-> e[1], key |-> e[2],
                    ttl_minutes |-> ttl,
                    result |-> cache_get(cache_meta[i].meta, parquet_files, TimeAt(clock),
                                         e[1], e[2], ttl)]
    /\ UNCHANGED <<scoreVars, pivotVars, clusterVars, filterVars, rankVars, scanVars,
                   meta_file, parquet_files, cache_meta, clock, put_pc, last_put, providerVars, watchVars, levelVars, profileVars, premarketVars, extremeVars, batchVars>>

\* get(namespace, key, ttl_minutes) on instance i
CacheGet(i) == \E e \in CacheEntries, ttl \in TtlMinutes : Get(i, e, ttl)

\* clear(namespace) on instance i; namespace None clears everything
Clear(i, namespace) ==
    /\ cache_meta[i].open
    /\ LET meta == cache_meta[i].meta
           kept == DictDrop(meta, KeysToRemove(meta, namespace))
       IN  /\ parquet_files' =
                 DictDrop(parquet_files, FilesToUnlink(meta, parquet_files, namespace))
           /\ cache_meta' = [cache_meta EXCEPT ![i] = Opened(kept)]
           /\ meta_file' = kept
           /\ last_put' = [e \in DOMAIN last_put |->
                 IF namespace = None \/ namespace.v = e[1] THEN Touched ELSE last_put[e]]
    /\ cache_op' = NoCall
    /\ UNCHANGED <<scoreVars, pivotVars, clusterVars, filterVars, rankVars, scanVars, clock, put_pc, providerVars, watchVars, levelVars, profileVars, premarketVars, extremeVars, batchVars>>

\* clear(namespace) or clear() on instance i
CacheClear(i) ==
    \E namespace \in {None} \cup {[k |-> "str", v |-> n] : n \in CacheNamespaces} :
        Clear(i, namespace)

\* Time passes
CacheTick ==
    /\ clock < MaxClock
    /\ clock' = clock + 1
    /\ cache_op' = NoCall
    /\ UNCHANGED <<scoreVars, pivotVars, clusterVars, filterVars, rankVars, scanVars,
                   meta_file, parquet_files, cache_meta, last_put, put_pc, providerVars, watchVars, levelVars, profileVars, premarketVars, extremeVars, batchVars>>

\* One DataCache instance on an empty directory, the calls of the run being
\* on the given entries
InitCacheOn(entries) ==
    /\ BatchIdle
    /\ ExtremeIdle
    /\ PremarketIdle
    /\ ProfileIdle
    /\ LevelIdle
    /\ WatchIdle
    /\ ProviderIdle
    /\ ScoreIdle
    /\ PivotIdle
    /\ ClusterIdle
    /\ FilterIdle
    /\ RankIdle
    /\ ScanIdle
    /\ meta_file = EmptyDict /\ parquet_files = EmptyDict
    /\ cache_meta = [i \in CacheInstances |-> IF i = 1 THEN Opened(EmptyDict) ELSE NotOpen]
    /\ clock = 0
    /\ last_put = [e \in entries |-> NeverPut]
    /\ cache_op = NoCall
    /\ put_pc = [i \in CacheInstances |-> NotPutting]

InitCache == InitCacheOn(CacheEntries)

NextCache == CachePut(1) \/ CacheGet(1) \/ CacheClear(1) \/ CacheTick

SpecCache == InitCache /\ [][NextCache]_vars

\* C11: on a single instance, get returns the table of the last successful
\* put on the entry while at most ttl_minutes*60 seconds have passed since
\* that put, None after that, and None for an entry that was never put;
\* puts and clears on other entries do not matter.
C11_GetReturnsStoredWithinTtl ==
    cache_op.op = "get" =>
        LET last == last_put[<<cache_op.namespace, cache_op.key>>]
        IN  /\ last.k = "never" => cache_op.result = None
            /\ last.k = "put" =>
                  cache_op.result =
                      IF Seconds(clock) - Seconds(last.at) <= cache_op.ttl_minutes * 60
                      THEN [k |-> "table", v |-> last.table]
                      ELSE None

(***************************************************************************)
(* One instance on which only put and get are called, while time passes.   *)
(***************************************************************************)
NextCachePuts == CachePut(1) \/ CacheGet(1) \/ CacheTick

SpecCachePuts == InitCache /\ [][NextCachePuts]_vars

\* What get(namespace, key, ttl) on the single instance would return now
GetNow(e, ttl) ==
    cache_get(cache_meta[1].meta, parquet_files, TimeAt(clock), e[1], e[2], ttl)

\* C22: entries are isolated by (namespace, key).  After any sequence of
\* puts, a get within the TTL returns the table most recently put under the
\* same pair, and a put under another pair changes the result of no get on
\* this pair.
C22_EntriesIsolated ==
    /\ [](\A e \in CacheEntries, ttl \in TtlMinutes :
             (last_put[e].k = "put" /\ Seconds(clock) - Seconds(last_put[e].at) <= ttl * 60)
                 => GetNow(e, ttl) = [k |-> "table", v |-> last_put[e].table])
    /\ [][\A e \in CacheEntries, other \in CacheEntries, ttl \in TtlMinutes :
             (other # e /\ last_put'[other] # last_put[other] /\ last_put'[e] = last_put[e])
                 => cache_get(cache_meta'[1].meta, parquet_files', TimeAt(clock'),
                              e[1], e[2], ttl)
                       = GetNow(e, ttl)]_vars

(***************************************************************************)
(* clear on one instance.  Three pairs in three namespaces; the file names *)
(* of (q, B_B) and (q_B, B) are both q_B_B.parquet.  The clock stands      *)
(* still, so every get is within its TTL.                                  *)
(***************************************************************************)
\* ("q", "B_B"), ("q_B", "B") and ("h", "B")
ClearEntries ==
    {<< <<113>>, <<66, Underscore, 66>> >>, << <<113, Underscore, 66>>, <<66>> >>,
     << <<104>>, <<66>> >>}

ClearNamespaces == {e[1] : e \in ClearEntries}

\* put(namespace, key, df) that succeeds
ClearPut ==
    /\ \E e \in ClearEntries, table \in CacheTables :
          LET meta == MetaAfterPut(cache_meta[1].meta, meta_file, cache_key(e[1], e[2]),
                                   MetaEntry(e[1], e[2], table, TimeAt(clock)))
          IN  /\ parquet_files' = DictPut(parquet_files, FileName(e[1], e[2]), table)
              /\ cache_meta' = [cache_meta EXCEPT ![1] = Opened(meta)]
              /\ meta_file' = meta
              /\ last_put' = [last_put EXCEPT ![e] = [k |-> "put", table |-> table, at |-> clock]]
    /\ cache_op' = NoCall
    /\ UNCHANGED <<scoreVars, pivotVars, clusterVars, filterVars, rankVars, scanVars, clock, put_pc, providerVars, watchVars, levelVars, profileVars, premarketVars, extremeVars, batchVars>>

\* clear(namespace), or clear() when the namespace is None
ClearCall ==
    /\ \E namespace \in {None} \cup {[k |-> "str", v |-> n] : n \in ClearNamespaces} :
          LET meta == cache_meta[1].meta
              kept == DictDrop(meta, KeysToRemove(meta, namespace))
          IN  /\ parquet_files' =
                    DictDrop(parquet_files, FilesToUnlink(meta, parquet_files, namespace))
              /\ cache_meta' = [cache_meta EXCEPT ![1] = Opened(kept)]
              /\ meta_file' = kept
              /\ last_put' = [e \in ClearEntries |->
                    IF namespace = None \/ namespace.v = e[1] THEN Touched ELSE last_put[e]]
              /\ cache_op' = [NoCall EXCEPT !.op = "clear", !.inst = 1, !.result = namespace]
    /\ UNCHANGED <<scoreVars, pivotVars, clusterVars, filterVars, rankVars, scanVars, clock, put_pc, providerVars, watchVars, levelVars, profileVars, premarketVars, extremeVars, batchVars>>

InitCacheClear ==
    /\ BatchIdle
    /\ ExtremeIdle
    /\ PremarketIdle
    /\ ProfileIdle
    /\ LevelIdle
    /\ WatchIdle
    /\ ProviderIdle
    /\ ScoreIdle
    /\ PivotIdle
    /\ ClusterIdle
    /\ FilterIdle
    /\ RankIdle
    /\ ScanIdle
    /\ meta_file = EmptyDict /\ parquet_files = EmptyDict
    /\ cache_meta = [i \in CacheInstances |-> IF i = 1 THEN Opened(EmptyDict) ELSE NotOpen]
    /\ clock = 0
    /\ last_put = [e \in ClearEntries |-> NeverPut]
    /\ cache_op = NoCall
    /\ put_pc = [i \in CacheInstances |-> NotPutting]

NextCacheClear == ClearPut \/ ClearCall

SpecCacheClear == InitCacheClear /\ [][NextCacheClear]_vars

\* C23: clear(namespace) removes exactly the entries of that namespace:
\* afterwards get returns None for every key of the namespace and, for every
\* entry of another namespace, what it returned before the clear; clear()
\* with no namespace makes get return None for every entry.
C23_ClearRemovesNamespace ==
    [][cache_op'.op = "clear" =>
          \A e \in ClearEntries :
              LET before == GetNow(e, 1)
                  after == cache_get(cache_meta'[1].meta, parquet_files', TimeAt(clock'),
                                     e[1], e[2], 1)
              IN  IF cache_op'.result = None \/ cache_op'.result.v = e[1]
                  THEN after = None
                  ELSE after = before]_vars

\* C25: on a single instance, after every completed put or clear the
\* on-disk _meta.json equals the in-memory metadata, and every metadata
\* entry refers to a Parquet file that exists in the cache directory.
C25_MetaOnDiskAndFilesExist ==
    /\ meta_file = cache_meta[1].meta
    /\ \A ck \in DOMAIN cache_meta[1].meta :
          cache_meta[1].meta[ck].file \in DOMAIN parquet_files

(***************************************************************************)
(* One instance whose file operations can fail: to_parquet raises, before  *)
(* or after it began to write the file, _save_meta cannot open _meta.json, *)
(* or it opens the file, which empties it, and the writing of the text     *)
(* stops after any number of its characters.  There is one process, whose  *)
(* calls follow one another; it may construct a new DataCache on the       *)
(* directory.  The two entries share their Parquet file, so that clear on  *)
(* the namespace of one unlinks the file of the other, whose metadata      *)
(* stay.  The clock stands still.                                          *)
(***************************************************************************)
\* ("q", "B/B") and ("q_B", "B"): both are stored in q_B_B.parquet
FaultEntries ==
    {<< <<113>>, <<66, Slash, 66>> >>, << <<113, Underscore, 66>>, <<66>> >>}

\* The table of every put here: one row
FaultTables == {Table({"close"}, <<[close |-> 1]>>)}

PutFailures == {"to_parquet", "to_parquet_partial", "save_meta", "save_meta_dump"}

\* The characters of the text of meta that can be in _meta.json when the
\* failure was raised: any number short of the whole text when json.dump or
\* the closing of the file raised
WrittenBefore(failure, meta) ==
    IF failure = "save_meta_dump" THEN 0..(TextLen(meta) - 1) ELSE {0}

\* put(namespace, key, df) in which a call inside the try block raises; the
\* except clause logs the exception and put returns
CachePutFails(i) ==
    /\ cache_meta[i].open
    /\ \E e \in FaultEntries, table \in FaultTables, failure \in PutFailures :
        \E meta \in {MetaAfterPut(cache_meta[i].meta, meta_file, cache_key(e[1], e[2]),
                                  MetaEntry(e[1], e[2], table, TimeAt(clock)))} :
        \E written \in WrittenBefore(failure, meta) :
              /\ parquet_files' =
                    IF failure = "to_parquet" THEN parquet_files
                    ELSE IF failure = "to_parquet_partial"
                    THEN DictPut(parquet_files, FileName(e[1], e[2]), PartialFile)
                    ELSE DictPut(parquet_files, FileName(e[1], e[2]), table)
              /\ cache_meta' =
                    IF failure \in {"save_meta", "save_meta_dump"}
                    THEN [cache_meta EXCEPT ![i] = Opened(meta)]
                    ELSE cache_meta
              /\ meta_file' =
                    IF failure = "save_meta_dump" THEN BrokenFile(written) ELSE meta_file
              /\ last_put' = [last_put EXCEPT ![e] = Touched]
              /\ cache_op' = [NoCall EXCEPT !.op = "put", !.inst = i, !.namespace = e[1],
                                            !.key = e[2],
                                            !.result = [k |-> failure, v |-> written]]
    /\ UNCHANGED <<scoreVars, pivotVars, clusterVars, filterVars, rankVars, scanVars, clock, put_pc, providerVars, watchVars, levelVars, profileVars, premarketVars, extremeVars, batchVars>>

\* put(namespace, key, df) that succeeds
FaultPut(i) == \E e \in FaultEntries, table \in FaultTables : Put(i, e, table, "ok")

\* get(namespace, key, ttl_minutes)
FaultGet(i) == \E e \in FaultEntries, ttl \in TtlMinutes : Get(i, e, ttl)

\* clear(namespace) or clear()
FaultClear(i) ==
    \E namespace \in {None} \cup {[k |-> "str", v |-> e[1]] : e \in FaultEntries} :
        Clear(i, namespace)

InitCacheFaults == InitCacheOn(FaultEntries)

NextCacheFaults ==
    FaultPut(1) \/ CachePutFails(1) \/ FaultGet(1) \/ FaultClear(1) \/ CacheOpen(1)

SpecCacheFaults == InitCacheFaults /\ [][NextCacheFaults]_vars

\* C24: I/O failures are swallowed and leave the cache as it was.  A put in
\* which writing the Parquet file or the metadata file fails returns with
\* the in-memory and the on-disk metadata as they were before; a get changes
\* no metadata and returns None when the entry's file is missing or cannot
\* be read.
C24_FailuresLeaveCacheUnchanged ==
    [][/\ cache_op'.op = "put" => (cache_meta' = cache_meta /\ meta_file' = meta_file)
       /\ cache_op'.op = "get" =>
             /\ cache_meta' = cache_meta /\ meta_file' = meta_file
             /\ LET ck == cache_key(cache_op'.namespace, cache_op'.key)
                    meta == cache_meta[1].meta
                IN  (/\ ck \in DOMAIN meta
                     /\ \/ meta[ck].file \notin DOMAIN parquet_files
                        \/ parquet_files[meta[ck].file] = PartialFile)
                    => cache_op'.result = None]_vars

(***************************************************************************)
(* Two processes on the same cache directory, each constructing its own    *)
(* DataCache and calling put and get on it.  A process is single-threaded: *)
(* it constructs or calls get between its puts, and the steps of its put   *)
(* interleave with the steps of the other process.  put takes five steps:  *)
(* to_parquet opens the Parquet file, to_parquet writes and closes it, the *)
(* entry is assigned in self._meta, _save_meta opens _meta.json for        *)
(* writing (which empties it), and the text is written when the file is    *)
(* closed.  Each process stores a table of its own; the two tables have    *)
(* the same size, so that the later write of a Parquet file replaces the   *)
(* earlier one.  The text of _meta.json is as long as its keys, file       *)
(* names, timestamps and row counts make it, and the clock ticks between   *)
(* the steps, so that two texts of one entry each differ in length.        *)
(***************************************************************************)
\* The table process i stores: one row, close = i
RaceTable(i) == Table({"close"}, <<[close |-> i]>>)

\* The entries the two processes use, ("q", "B/B") and ("h", "B\"\u00e9"): their
\* file names differ, and the quote and the e with an acute accent of the
\* second key are written to _meta.json as \" and \u00e9
RaceEntries == {<< <<113>>, <<66, Slash, 66>> >>, << <<104>>, <<66, 34, 233>> >>}

InitCacheRace ==
    /\ BatchIdle
    /\ ExtremeIdle
    /\ PremarketIdle
    /\ ProfileIdle
    /\ LevelIdle
    /\ WatchIdle
    /\ ProviderIdle
    /\ ScoreIdle
    /\ PivotIdle
    /\ ClusterIdle
    /\ FilterIdle
    /\ RankIdle
    /\ ScanIdle
    /\ meta_file = EmptyDict /\ parquet_files = EmptyDict
    /\ cache_meta = [i \in CacheInstances |-> NotOpen]
    /\ clock = 0
    /\ last_put = [e \in RaceEntries |-> NeverPut]
    /\ cache_op = NoCall
    /\ put_pc = [i \in CacheInstances |-> NotPutting]

\* DataCache(cache_dir) in process i
RaceOpen(i) == put_pc[i].step = "idle" /\ CacheOpen(i)

\* get(namespace, key, 1) in process i
RaceGet(i) == put_pc[i].step = "idle" /\ \E e \in RaceEntries : Get(i, e, 1)

\* put(namespace, key, df) begins: df.to_parquet(parquet_path) creates the
\* file, or empties the one that is there
PutOpenParquet(i) ==
    /\ cache_meta[i].open
    /\ put_pc[i].step = "idle"
    /\ \E e \in RaceEntries :
          /\ parquet_files' = DictPut(parquet_files, FileName(e[1], e[2]), PartialFile)
          /\ put_pc' = [put_pc EXCEPT ![i] = Putting("to_parquet", e, RaceTable(i))]
    /\ cache_op' = NoCall
    /\ UNCHANGED <<scoreVars, pivotVars, clusterVars, filterVars, rankVars, scanVars, meta_file, cache_meta, clock, last_put, providerVars, watchVars, levelVars, profileVars, premarketVars, extremeVars, batchVars>>

\* df.to_parquet(parquet_path) writes the table and closes the file
PutToParquet(i) ==
    /\ put_pc[i].step = "to_parquet"
    /\ LET e == put_pc[i].entry
       IN  parquet_files' = DictPut(parquet_files, FileName(e[1], e[2]), put_pc[i].table)
    /\ put_pc' = [put_pc EXCEPT ![i].step = "meta"]
    /\ cache_op' = NoCall
    /\ UNCHANGED <<scoreVars, pivotVars, clusterVars, filterVars, rankVars, scanVars, meta_file, cache_meta, clock, last_put, providerVars, watchVars, levelVars, profileVars, premarketVars, extremeVars, batchVars>>

\* self._meta[cache_key] = {"file": ..., "timestamp": ..., "rows": ...}
PutSetMeta(i) ==
    /\ put_pc[i].step = "meta"
    /\ LET e == put_pc[i].entry
       IN  cache_meta' = [cache_meta EXCEPT ![i] =
               Opened(MetaAfterPut(cache_meta[i].meta, meta_file, cache_key(e[1], e[2]),
                                   MetaEntry(e[1], e[2], put_pc[i].table, TimeAt(clock))))]
    /\ put_pc' = [put_pc EXCEPT ![i].step = "open_meta"]
    /\ cache_op' = NoCall
    /\ UNCHANGED <<scoreVars, pivotVars, clusterVars, filterVars, rankVars, scanVars, meta_file, parquet_files, clock, last_put, providerVars, watchVars, levelVars, profileVars, premarketVars, extremeVars, batchVars>>

\* _save_meta: open(self._meta_path, "w") empties _meta.json
PutOpenMeta(i) ==
    /\ put_pc[i].step = "open_meta"
    /\ meta_file' = BrokenFile(0)
    /\ put_pc' = [put_pc EXCEPT ![i].step = "dump"]
    /\ cache_op' = NoCall
    /\ UNCHANGED <<scoreVars, pivotVars, clusterVars, filterVars, rankVars, scanVars, parquet_files, cache_meta, clock, last_put, providerVars, watchVars, levelVars, profileVars, premarketVars, extremeVars, batchVars>>

\* _save_meta: the text json.dump produced is written from offset 0 when the
\* with block closes the file, and put returns
PutDump(i) ==
    /\ put_pc[i].step = "dump"
    /\ meta_file' = Overwritten(meta_file, cache_meta[i].meta)
    /\ last_put' = [last_put EXCEPT ![put_pc[i].entry] =
                       [k |-> "put", table |-> put_pc[i].table, at |-> clock]]
    /\ put_pc' = [put_pc EXCEPT ![i] = NotPutting]
    /\ cache_op' = NoCall
    /\ UNCHANGED <<scoreVars, pivotVars, clusterVars, filterVars, rankVars, scanVars, parquet_files, cache_meta, clock, providerVars, watchVars, levelVars, profileVars, premarketVars, extremeVars, batchVars>>

\* Time passes between the steps of the processes
RaceTick == clock < MaxRaceClock /\ CacheTick

NextCacheRace ==
    \/ \E i \in CacheInstances :
          \/ RaceOpen(i)
          \/ RaceGet(i)
          \/ PutOpenParquet(i)
          \/ PutToParquet(i)
          \/ PutSetMeta(i)
          \/ PutOpenMeta(i)
          \/ PutDump(i)
    \/ RaceTick

SpecCacheRace == InitCacheRace /\ [][NextCacheRace]_vars

\* C12: a put rewrites _meta.json from the putting instance's own in-memory
\* copy, without locking and without reading the file again.  Inside a put
\* the instance's copy gains no key but the one it puts, whatever other
\* instances write meanwhile; and when the put has written the file and the
\* text is a JSON document, every entry that was put successfully and that
\* the putting instance's copy did not hold is absent from the file, so that
\* an instance constructed on that file gets None for it.
C12_PutWritesOwnCopy ==
    [][\A i \in CacheInstances :
          /\ put_pc[i].step # "idle" =>
                DOMAIN cache_meta'[i].meta \ DOMAIN cache_meta[i].meta
                    \subseteq {cache_key(put_pc[i].entry[1], put_pc[i].entry[2])}
          /\ (put_pc[i].step = "dump" /\ put_pc'[i].step = "idle" /\ ~Unparsable(meta_file'))
             => \A e \in RaceEntries :
                    (/\ last_put[e].k = "put"
                     /\ cache_key(e[1], e[2]) \notin DOMAIN cache_meta[i].meta)
                    => /\ cache_key(e[1], e[2]) \notin DOMAIN meta_file'
                       /\ cache_get(load_meta(meta_file').v, parquet_files', TimeAt(clock'),
                                    e[1], e[2], 1) = None]_vars

\* C12 witness, the lost update: an entry was put successfully, it is absent
\* from _meta.json after the other instance's put, and an instance opened
\* on that file gets None for it
C12_Witness ==
    \E e \in RaceEntries :
        /\ last_put[e].k = "put"
        /\ cache_key(e[1], e[2]) \notin DOMAIN meta_file
        /\ meta_file # EmptyDict
        /\ cache_op.op = "get" /\ cache_op.namespace = e[1] /\ cache_op.key = e[2]
        /\ cache_op.ttl_minutes = 1
        /\ cache_meta[cache_op.inst].meta = meta_file
        /\ cache_op.result = None

(***************************************************************************)
(* Constructing MassiveProvider or BacktestProvider: each environment      *)
(* variable is unset, empty or set, and massive_api_key is empty or set.   *)
(***************************************************************************)
EnvValues == {Unset, [set |-> TRUE, v |-> ""], [set |-> TRUE, v |-> "key"]}

InitProvider ==
    /\ BatchIdle
    /\ ExtremeIdle
    /\ PremarketIdle
    /\ ProfileIdle
    /\ LevelIdle
    /\ WatchIdle
    /\ ScoreIdle
    /\ PivotIdle
    /\ ClusterIdle
    /\ FilterIdle
    /\ RankIdle
    /\ ScanIdle
    /\ CacheIdle
    /\ provider \in {"massive", "backtest"}
    /\ data_settings \in {DataSettings(""), DataSettings("key")}
    /\ environ \in [EnvNames -> EnvValues]
    /\ constructed = NotConstructed

\* MassiveProvider() or BacktestProvider()
Construct ==
    /\ constructed = NotConstructed
    /\ constructed' = IF provider = "massive"
                      THEN MassiveProvider(data_settings, environ)
                      ELSE BacktestProvider(data_settings, environ)
    /\ UNCHANGED <<scoreVars, pivotVars, clusterVars, filterVars, rankVars, scanVars, cacheVars,
                   provider, data_settings, environ, watchVars, levelVars, profileVars, premarketVars, extremeVars, batchVars>>

NextProvider == Construct

SpecProvider == InitProvider /\ [][NextProvider]_vars

\* A credential is configured: as a settings field or as an environment
\* variable, and not empty
Configured(field, name) ==
    \/ field \in DOMAIN data_settings /\ data_settings[field] # ""
    \/ environ[name].set /\ environ[name].v # ""

\* C13: constructing a credentialed provider without its credentials raises
\* ValueError naming the missing variables, and no other exception:
\* MassiveProvider names MASSIVE_API_KEY, BacktestProvider names
\* BACKTEST_ACCESS_KEY and BACKTEST_SECRET_KEY when either key is missing.
C13_MissingCredentialsValueError ==
    constructed # NotConstructed =>
        /\ (provider = "massive" /\ ~Configured("massive_api_key", "MASSIVE_API_KEY"))
           => constructed = ValueError(<<"MASSIVE_API_KEY">>)
        /\ (provider = "backtest"
            /\ (~Configured("backtest_access_key", "BACKTEST_ACCESS_KEY")
                \/ ~Configured("backtest_secret_key", "BACKTEST_SECRET_KEY")))
           => constructed = ValueError(<<"BACKTEST_ACCESS_KEY", "BACKTEST_SECRET_KEY">>)

(***************************************************************************)
(* The three batch operations side by side: a behaviour runs               *)
(* scan_premarket, scan_watchlist or rank_candidates on one of its inputs. *)
(***************************************************************************)
WatchNames == {"default", "tech"}

WatchTickers == {"AAA", "BBB"}

WatchValues == {OtherValue, ListValue(<<>>), ListValue(<<"AAA", "BBB">>), ListValue(<<"BBB">>)}

WatchFiles ==
    {MissingFile} \cup
    {YamlFile(data) : data \in UNION {[names -> WatchValues] : names \in SUBSET WatchNames}}

InitWatchlist ==
    /\ BatchIdle
    /\ ExtremeIdle
    /\ PremarketIdle
    /\ ProfileIdle
    /\ LevelIdle
    /\ ScoreIdle
    /\ PivotIdle
    /\ ClusterIdle
    /\ FilterIdle
    /\ RankIdle
    /\ ScanIdle
    /\ CacheIdle
    /\ ProviderIdle
    /\ watch_file \in WatchFiles
    /\ watchlist_name \in WatchNames \cup {"unknown"}
    /\ watch_fetches \in [WatchTickers -> UNION {Fetches(t) : t \in WatchTickers}]
    /\ \A t \in WatchTickers : watch_fetches[t] \in Fetches(t)
    /\ watch_df = EmptyFrame
    /\ watch_pc = "ready"

\* scan_watchlist(settings, watchlist_name, provider)
ScanWatchlist ==
    /\ watch_pc = "ready"
    /\ watch_df' = scan_watchlist(watch_file, watchlist_name, watch_fetches)
    /\ watch_pc' = "done"
    /\ UNCHANGED <<scoreVars, pivotVars, clusterVars, filterVars, rankVars, scanVars, cacheVars,
                   providerVars, watch_file, watchlist_name, watch_fetches, levelVars, profileVars, premarketVars, extremeVars, batchVars>>

InitEmptyResults == InitScan \/ InitWatchlist \/ InitRank

NextEmptyResults == Scan \/ ScanWatchlist \/ RankTicker \/ RankReturn

SpecEmptyResults == InitEmptyResults /\ [][NextEmptyResults]_vars

\* The watchlist named is in the file with at least one ticker
WatchlistKnown ==
    /\ watch_file.exists /\ watchlist_name \in DOMAIN watch_file.data
    /\ watch_file.data[watchlist_name].list /\ watch_file.data[watchlist_name].tickers # <<>>

\* Some ticker of the named watchlist has a pre-market record
WatchlistHasRecords ==
    /\ WatchlistKnown
    /\ \E i \in DOMAIN watch_file.data[watchlist_name].tickers :
          watch_fetches[watch_file.data[watchlist_name].tickers[i]].ok

Members(cs, lv, i) ==
    LET first == SumSeq([j \in 1..(i - 1) |-> cs[j].strength]) + 1
    IN  SubSeq(sorted(lv), first, first + cs[i].strength - 1)

\* x (in cents) is the mean of the prices q rounded to the cent
IsRoundedMean(x, q) ==
    /\ q # <<>>
    /\ 2 * Len(q) * x - 2 * SumSeq(q) <= Len(q)
    /\ 2 * SumSeq(q) - 2 * Len(q) * x <= Len(q)

\* C15: every entry of cluster_levels has the fields level and strength,
\* strength is the number of members and level their mean rounded to two
\* decimals; the clusters partition the sorted input, so the strengths sum
\* to the number of levels; an empty input gives an empty list.
C15_LevelIsMeanStrengthIsCount ==
    Clustered =>
        /\ \A i \in 1..Len(clusters) :
              /\ DOMAIN clusters[i] = {"level", "strength"}
              /\ clusters[i].strength >= 1
              /\ Len(Members(clusters, levels, i)) = clusters[i].strength
              /\ IsRoundedMean(clusters[i].level, Members(clusters, levels, i))
        /\ SumSeq([i \in 1..Len(clusters) |-> clusters[i].strength]) = Len(levels)
        /\ levels = <<>> => clusters = <<>>

\* C15 witness: four levels in two clusters of strengths 3 and 1, the first
\* with a mean that needed rounding
C15_Witness ==
    /\ Clustered /\ Len(levels) = 4 /\ Len(clusters) = 2
    /\ clusters[1].strength = 3 /\ clusters[2].strength = 1
    /\ SumSeq(Members(clusters, levels, 1)) % 3 # 0

(***************************************************************************)
(* Support and resistance: up to MaxBars daily bars drawn from a few       *)
(* price zones, then the levels nearest to a price.                        *)
(***************************************************************************)
MaxBars == 5

BarValues ==
    {[low |-> 8950, close |-> 9000, high |-> 9050],
     [low |-> 9950, close |-> 10000, high |-> 10050],
     [low |-> 10000, close |-> 10100, high |-> 10150],
     [low |-> 10950, close |-> 11000, high |-> 11050]}

\* find_support_resistance's default tolerance of 1.5 percent, in tenths
DefaultTolerance == 15

InitLevels ==
    /\ BatchIdle
    /\ ExtremeIdle
    /\ PremarketIdle
    /\ ProfileIdle
    /\ ScoreIdle
    /\ PivotIdle
    /\ ClusterIdle
    /\ FilterIdle
    /\ RankIdle
    /\ ScanIdle
    /\ CacheIdle
    /\ ProviderIdle
    /\ WatchIdle
    /\ bars \in SeqsUpTo(BarValues, MaxBars)
    /\ order \in {1, 2}
    /\ current_price = 0 /\ n_nearest = 0
    /\ sr_levels = NoLevels /\ nearest = NoLevels /\ level_pc = "ready"

\* The commands call find_support_resistance(df) first, under either kind of
\* interpreter; an exception ends the command
FindSupportResistance ==
    /\ level_pc = "ready"
    /\ \E kind \in SumKinds :
          \E sr \in {find_support_resistance(bars, order, DefaultTolerance, kind)} :
              IF "raised" \in DOMAIN sr
              THEN sr_levels' = NoLevels /\ level_pc' = "raised"
              ELSE sr_levels' = sr /\ level_pc' = "found"
    /\ UNCHANGED <<scoreVars, pivotVars, clusterVars, filterVars, rankVars, scanVars, cacheVars,
                   providerVars, watchVars, bars, order, current_price, n_nearest, nearest, profileVars, premarketVars, extremeVars, batchVars>>

\* The commands then call get_nearest_levels(current_price, sr_levels, n) on
\* the levels found
NearestLevels ==
    /\ level_pc = "found"
    /\ current_price' \in {9500, 10025, 10050}
    /\ n_nearest' \in {1, 3}
    /\ nearest' = get_nearest_levels(current_price', sr_levels, n_nearest')
    /\ level_pc' = "done"
    /\ UNCHANGED <<scoreVars, pivotVars, clusterVars, filterVars, rankVars, scanVars, cacheVars,
                   providerVars, watchVars, bars, order, sr_levels, profileVars, premarketVars, extremeVars, batchVars>>

NextLevels == FindSupportResistance \/ NearestLevels

SpecLevels == InitLevels /\ [][NextLevels]_vars

\* The entries of q as a set
Entries(q) == {q[i] : i \in DOMAIN q}

\* C16: from the levels of find_support_resistance, get_nearest_levels
\* returns the n resistance levels nearest to the price among those strictly
\* above it and the n support levels nearest among those strictly below it
\* (all of them if fewer exist), nearest first; nothing returned is on the
\* wrong side of the price or at the price.
C16_NearestLevels ==
    level_pc = "done" =>
        LET above == {r \in Entries(sr_levels.resistance) : r.level > current_price}
            below == {r \in Entries(sr_levels.support) : r.level < current_price}
            res == nearest.resistance
            sup == nearest.support
        IN  /\ Entries(res) \subseteq above /\ Entries(sup) \subseteq below
            /\ Len(res) = Min(n_nearest, Cardinality(above)) /\ Cardinality(Entries(res)) = Len(res)
            /\ Len(sup) = Min(n_nearest, Cardinality(below)) /\ Cardinality(Entries(sup)) = Len(sup)
            /\ \A i \in 1..(Len(res) - 1) : res[i].level <= res[i + 1].level
            /\ \A i \in 1..(Len(sup) - 1) : sup[i].level >= sup[i + 1].level
            /\ \A r \in Entries(res) : \A x \in above \ Entries(res) : r.level <= x.level
            /\ \A r \in Entries(sup) : \A x \in below \ Entries(sup) : r.level >= x.level

\* C16 witness: two resistance levels above the price, n = 1, and the
\* nearer of the two is the one returned, with the one support level below
C16_Witness ==
    /\ level_pc = "done" /\ n_nearest = 1
    /\ Len(sr_levels.resistance) = 2
    /\ \A r \in Entries(sr_levels.resistance) : r.level > current_price
    /\ nearest.resistance = <<sr_levels.resistance[1]>>
    /\ sr_levels.resistance[1].level < sr_levels.resistance[2].level
    /\ Len(nearest.support) = 1

(***************************************************************************)
(* apply_filters called once on a table, with a chain of up to three of    *)
(* the price, volume, gap and average-volume filters.                      *)
(***************************************************************************)

\* The values a row of the table is drawn from: price and pre_price differ,
\* one gap is negative, volumes lie on both sides of the filters' minima
FilterRowValues ==
    {[pre_price |-> 10, price |-> 3, pre_volume |-> 500, gap_pct |-> -8, avg_volume |-> 1000],
     [pre_price |-> 3, price |-> 10, pre_volume |-> 100, gap_pct |-> 5, avg_volume |-> 300],
     [pre_price |-> 8, price |-> 8, pre_volume |-> 200, gap_pct |-> 2, avg_volume |-> 500]}

FilterRow(ticker, c) ==
    [ticker |-> ticker, pre_price |-> c.pre_price, price |-> c.price,
     pre_volume |-> c.pre_volume, gap_pct |-> c.gap_pct,
     avg_volume |-> c.avg_volume, float_shares |-> 5000]

FilterRows(n) ==
    {[i \in 1..n |-> FilterRow(Tickers[i], cs[i])] : cs \in [1..n -> FilterRowValues]}

\* Tables with both price columns, and tables that lack one of the columns read
FilterColumnSets ==
    ColumnSets \cup {AllColumns, AllColumns \ {"price", "avg_volume"}}

FilterPool ==
    {price_filter(5, Inf), price_filter(0, 8), volume_filter(200, "pre_volume"),
     gap_filter(3), avg_volume_filter(500)}

FilterChains ==
    {<<>>} \cup {<<a>> : a \in FilterPool}
           \cup {<<a, b>> : a \in FilterPool, b \in FilterPool}
           \cup {<<a, b, c>> : a \in FilterPool, b \in FilterPool, c \in FilterPool}

InitFilterRows ==
    /\ BatchIdle
    /\ ExtremeIdle
    /\ PremarketIdle
    /\ ProfileIdle
    /\ LevelIdle
    /\ WatchIdle
    /\ ProviderIdle
    /\ CacheIdle
    /\ ScoreIdle
    /\ RankIdle
    /\ ScanIdle
    /\ PivotIdle
    /\ ClusterIdle
    /\ \E n \in 0..MaxRows, cols \in FilterColumnSets :
          \E rows \in FilterRows(n) : df = Table(cols, rows)
    /\ \E fs \in FilterChains : chain = <<fs>>
    /\ filtered = NotFiltered

\* result = apply_filters(df, filters)
ApplyFilters ==
    /\ filtered = NotFiltered
    /\ filtered' = apply_filters(df, Head(chain))
    /\ UNCHANGED <<scoreVars, pivotVars, clusterVars, df, chain, rankVars, scanVars, cacheVars, providerVars, watchVars, levelVars, profileVars, premarketVars, extremeVars, batchVars>>

NextFilterRows == ApplyFilters

SpecFilterRows == InitFilterRows /\ [][NextFilterRows]_vars

\* The column a filter reads in a table with the columns cols
ColumnRead(f, cols) ==
    IF f.kind = "price" THEN (IF "pre_price" \in cols THEN "pre_price" ELSE "price")
    ELSE f.column

\* The condition of a filter on the value v of the column it reads
Within(f, v) ==
    IF f.kind = "price" THEN v >= f.lo /\ v <= f.hi
    ELSE IF f.kind = "gap" THEN Abs(v) >= f.lo
    ELSE v >= f.lo

\* A row satisfies every filter of the chain whose column the table has
SatisfiesPresent(r, filters, cols) ==
    \A i \in 1..Len(filters) :
        ColumnRead(filters[i], cols) \in cols
            => Within(filters[i], r[ColumnRead(filters[i], cols)])

\* C17: apply_filters returns exactly the rows of the input that satisfy
\* every filter of the chain (price within [min_price, max_price] inclusive,
\* volume >= min_volume, |gap_pct| >= min_gap_pct, avg_volume >= min_avg_volume),
\* in their original order, and the input table is left unmodified.  The
\* price is read from pre_price when the table has it and from price
\* otherwise, and a filter whose column the table lacks sets no condition.
C17_ExactlySatisfyingRows ==
    /\ [](filtered # NotFiltered =>
            filtered = Table(df.cols,
                             SelectSeq(df.rows,
                                       LAMBDA r : SatisfiesPresent(r, Head(chain), df.cols))))
    /\ [][df' = df]_vars

\* A chain with a price and a gap filter on a table of two rows that has
\* gap_pct: the first row is dropped, the row with the negative gap is kept
C17_Witness ==
    /\ filtered # NotFiltered
    /\ "gap_pct" \in df.cols
    /\ \E i \in 1..Len(Head(chain)) : Head(chain)[i].kind = "gap"
    /\ \E i \in 1..Len(Head(chain)) : Head(chain)[i].kind = "price"
    /\ Len(df.rows) = 2
    /\ Len(filtered.rows) = 1
    /\ filtered.rows[1].gap_pct < 0
    /\ filtered.rows[1] = df.rows[2]

(***************************************************************************)
(* build_filter_chain called on a config dict with any subset of the keys. *)
(***************************************************************************)

\* The values each key of the config dict is drawn from when it is present
KeyValues ==
    [min_price |-> {2, 5}, max_price |-> {100}, min_premarket_volume |-> {200},
     min_gap_pct |-> {3}, min_avg_volume |-> {500}, max_float_millions |-> {10},
     max_results |-> {20}]

\* Every dict over the keys: each key absent or present with one of its values
ConfigDicts ==
    {c \in [ConfigKeys -> {Absent} \cup {Num(v) : v \in {2, 3, 5, 10, 20, 100, 200, 500}}] :
        \A key \in ConfigKeys : Has(c, key) => c[key].v \in KeyValues[key]}

InitFilterChain ==
    /\ BatchIdle
    /\ ExtremeIdle
    /\ PremarketIdle
    /\ ProfileIdle
    /\ LevelIdle
    /\ WatchIdle
    /\ ProviderIdle
    /\ CacheIdle
    /\ ScoreIdle
    /\ RankIdle
    /\ PivotIdle
    /\ ClusterIdle
    /\ cli = NoOptions /\ settings = ScreenerSettings
    /\ fetches = <<>> /\ scan_df = EmptyFrame /\ scan_pc = "idle"
    /\ filter_config \in ConfigDicts
    /\ df = Table({}, <<>>) /\ filtered = NotFiltered
    /\ chain = <<>>

\* filters = build_filter_chain(config)
BuildFilterChain ==
    /\ chain = <<>>
    /\ chain' = <<build_filter_chain(filter_config)>>
    /\ UNCHANGED <<scoreVars, pivotVars, clusterVars, df, filtered, rankVars, scanVars, cacheVars, providerVars, watchVars, levelVars, profileVars, premarketVars, extremeVars, batchVars>>

NextFilterChain == BuildFilterChain

SpecFilterChain == InitFilterChain /\ [][NextFilterChain]_vars

\* The kinds of filter in the order the claim gives them
KindOrder == <<"price", "volume", "gap", "avg_volume", "float">>

\* The criterion of a kind of filter is present in the config dict
CriterionConfigured(config, kind) ==
    IF kind = "price" THEN Has(config, "min_price") \/ Has(config, "max_price")
    ELSE IF kind = "volume" THEN Has(config, "min_premarket_volume")
    ELSE IF kind = "gap" THEN Has(config, "min_gap_pct")
    ELSE IF kind = "avg_volume" THEN Has(config, "min_avg_volume")
    ELSE Has(config, "max_float_millions")

Kinds(filters) == [i \in 1..Len(filters) |-> filters[i].kind]

\* C18: the chain built from a config holds one filter for each configured
\* criterion and none for an absent one -- a single price filter for
\* min_price and/or max_price, one filter each for min_premarket_volume (on
\* the pre_volume column), min_gap_pct, min_avg_volume and max_float_millions
\* -- in the order price, pre-market volume, gap, average volume, float; an
\* empty config gives an empty chain.
C18_OneFilterPerCriterion ==
    chain # <<>> =>
        /\ Kinds(Head(chain))
              = SelectSeq(KindOrder, LAMBDA kind : CriterionConfigured(filter_config, kind))
        /\ \A i \in 1..Len(Head(chain)) :
              Head(chain)[i].kind = "volume" => Head(chain)[i].column = "pre_volume"
        /\ (\A key \in ConfigKeys : ~Has(filter_config, key)) => Head(chain) = <<>>

\* A config with max_price but no min_price, a gap and a float criterion and
\* no volume criteria: the chain built is price, gap, float
C18_Witness ==
    /\ chain # <<>>
    /\ Has(filter_config, "max_price") /\ ~Has(filter_config, "min_price")
    /\ ~Has(filter_config, "min_premarket_volume") /\ ~Has(filter_config, "min_avg_volume")
    /\ Kinds(Head(chain)) = <<"price", "gap", "float">>

(***************************************************************************)
(* compute_volume_profile on a short series of closes and volumes.         *)
(***************************************************************************)

MaxSeries == 3

MaxBins == 4

\* The bars of the series: close in cents, volume in shares, some volumes zero
ProfileBars == [close : {1000, 1200, 1600}, volume : {0, 100, 300}]

\* bins is at least 1: the callers pass 20 (cli.py) and 10 (the tests)
InitProfile ==
    /\ BatchIdle
    /\ ExtremeIdle
    /\ PremarketIdle
    /\ LevelIdle
    /\ WatchIdle
    /\ ProviderIdle
    /\ CacheIdle
    /\ ScoreIdle
    /\ RankIdle
    /\ ScanIdle
    /\ PivotIdle
    /\ ClusterIdle
    /\ FilterIdle
    /\ \E n \in 0..MaxSeries : \E q \in [1..n -> ProfileBars] :
          /\ close_series = [k \in 1..n |-> q[k].close]
          /\ volume_series = [k \in 1..n |-> q[k].volume]
    /\ bins \in 1..MaxBins
    /\ profile = <<>>
    /\ profile_pc = "ready"

\* profile = compute_volume_profile(close, volume, bins)
Profile ==
    /\ profile_pc = "ready"
    /\ profile' = compute_volume_profile(close_series, volume_series, bins)
    /\ profile_pc' = "done"
    /\ UNCHANGED <<scoreVars, pivotVars, clusterVars, filterVars, rankVars, scanVars, cacheVars, providerVars, watchVars, levelVars, close_series, volume_series, bins, premarketVars, extremeVars, batchVars>>

NextProfile == Profile

SpecProfile == InitProfile /\ [][NextProfile]_vars

\* C19: compute_volume_profile returns exactly bins rows, one for each of
\* the bins equal-width price bins between the minimum and the maximum close
\* (their mid prices are those of the bins), ordered by volume in
\* non-increasing order.
C19_BinsRowsByVolume ==
    profile_pc = "done" =>
        LET mid == [j \in 0..(bins - 1) |-> MidPrice(BinEdges(close_series, bins), j)]
        IN  /\ Len(profile) = bins
            /\ \A i \in 1..Len(profile) : \A j \in 1..Len(profile) :
                  i < j => profile[i].volume >= profile[j].volume
            /\ \A j \in 0..(bins - 1) :
                  Cardinality({i \in 1..Len(profile) : profile[i].price_level = mid[j]})
                    = Cardinality({k \in 0..(bins - 1) : mid[k] = mid[j]})

\* Three bins with three different volumes, the largest in the middle bin;
\* the top bin is empty because the maximum close lies in no half-open bin
C19_Witness ==
    /\ profile_pc = "done"
    /\ bins = 3
    /\ Len(profile) = 3
    /\ profile[1].volume > profile[2].volume
    /\ profile[2].volume > profile[3].volume
    /\ profile[3].volume = 0
    /\ profile[1].price_level.v > profile[2].price_level.v
    /\ profile[3].price_level.v > profile[1].price_level.v

\* The bins (counted from 0) whose mask holds the bar k
BinsOf(k) ==
    LET bin_edges == BinEdges(close_series, bins)
        c == FHundredths(close_series[k])
    IN  {j \in 0..(bins - 1) : InBin(c, bin_edges, j)}

\* C29: compute_volume_profile conserves volume: every bar of the input
\* falls into exactly one bin, so the volume column sums to the total input
\* volume, and pct_of_total sums to 100 (up to the rounding of each row to
\* two decimals) when the total volume is positive; the bar at the maximum
\* close and the series whose closes are all equal are included.
C29_VolumeConserved ==
    profile_pc = "done" =>
        LET total == SumSeq([i \in DOMAIN profile |-> profile[i].volume])
            pct == SumSeq([i \in DOMAIN profile |-> profile[i].pct_of_total])
        IN  /\ \A k \in DOMAIN close_series : Cardinality(BinsOf(k)) = 1
            /\ total = SumSeq(volume_series)
            /\ SumSeq(volume_series) > 0 =>
                  (2 * (pct - 10000) <= bins /\ 2 * (10000 - pct) <= bins)

(***************************************************************************)
(* One call of get_premarket on a reply of the data service.               *)
(***************************************************************************)
\* What a price field of a reply can hold: nothing, null, 0 or a price in cents
PriceCells == {Absent, None} \cup {Num(x) : x \in {0, 9500, 10000, 10500}}

YahooInfos == [preMarketPrice : PriceCells, previousClose : PriceCells]

MassiveSnapshots == [price : PriceCells, close : PriceCells, c : PriceCells]

InitPremarket ==
    /\ BatchIdle
    /\ ExtremeIdle
    /\ ProfileIdle
    /\ LevelIdle
    /\ WatchIdle
    /\ ProviderIdle
    /\ CacheIdle
    /\ ScoreIdle
    /\ RankIdle
    /\ ScanIdle
    /\ PivotIdle
    /\ ClusterIdle
    /\ FilterIdle
    /\ \/ pm_provider = "yahoo" /\ pm_info \in YahooInfos
       \/ pm_provider = "massive" /\ pm_info \in MassiveSnapshots
    /\ pm_record = NoReply
    /\ pm_pc = "ready"

\* record = provider.get_premarket(ticker)
GetPremarket ==
    /\ pm_pc = "ready"
    /\ pm_record' = IF pm_provider = "yahoo" THEN yahoo_get_premarket(pm_info)
                    ELSE massive_get_premarket(pm_info)
    /\ pm_pc' = "done"
    /\ UNCHANGED <<scoreVars, pivotVars, clusterVars, filterVars, rankVars, scanVars, cacheVars, providerVars, watchVars, levelVars, profileVars, pm_provider, pm_info, extremeVars, batchVars>>

NextPremarket == GetPremarket

SpecPremarket == InitPremarket /\ [][NextPremarket]_vars

\* x is n / d rounded to a nearest integer (d > 0)
IsNearest(x, n, d) == 2 * (x * d - n) <= d /\ 2 * (n - x * d) <= d

\* A price of the record is unavailable: None or 0
Unavailable(price) == price.k # "num" \/ price.v = 0

\* C26: the record get_premarket returns has gap_pct equal to
\* (pre_price - prev_close) / prev_close * 100 rounded to two decimals, and
\* gap_pct = 0 whenever its pre-market price or its previous close is
\* unavailable (missing or 0).
C26_GapPct ==
    (pm_pc = "done" /\ pm_record.k = "record") =>
        IF Unavailable(pm_record.pre_price) \/ Unavailable(pm_record.prev_close)
        THEN pm_record.gap_pct = 0
        ELSE IsNearest(pm_record.gap_pct,
                       (pm_record.pre_price.v - pm_record.prev_close.v) * 10000,
                       pm_record.prev_close.v)

(***************************************************************************)
(* find_local_extremes called once on a series of up to MaxPoints prices   *)
(* from three values, so that plateaus and ties occur.                     *)
(***************************************************************************)
MaxPoints == 5

PointValues == {100, 200, 300}

InitExtremes ==
    /\ BatchIdle
    /\ PremarketIdle
    /\ ProfileIdle
    /\ LevelIdle
    /\ WatchIdle
    /\ ProviderIdle
    /\ CacheIdle
    /\ ScoreIdle
    /\ RankIdle
    /\ ScanIdle
    /\ PivotIdle
    /\ ClusterIdle
    /\ FilterIdle
    /\ series \in SeqsUpTo(PointValues, MaxPoints)
    /\ ext_order \in 0..3
    /\ extremes = NoExtremes
    /\ ext_pc = "ready"

\* peaks, troughs = find_local_extremes(series, order)
FindLocalExtremes ==
    /\ ext_pc = "ready"
    /\ extremes' = find_local_extremes(series, ext_order)
    /\ ext_pc' = "done"
    /\ UNCHANGED <<scoreVars, pivotVars, clusterVars, filterVars, rankVars, scanVars, cacheVars, providerVars, watchVars, levelVars, profileVars, premarketVars, series, ext_order, batchVars>>

NextExtremes == FindLocalExtremes

SpecExtremes == InitExtremes /\ [][NextExtremes]_vars

\* The indices a list of (index, price) pairs reports
Reported(pairs) == {pairs[k][1] : k \in DOMAIN pairs}

\* The indices of the window [i - order, i + order] that lie in the series
WindowIndices(i) == {j \in 0..(Len(series) - 1) : i - ext_order <= j /\ j <= i + ext_order}

InRange(i) == ext_order <= i /\ i < Len(series) - ext_order

\* The value at index i is the largest / the smallest of its window
IsWindowMax(i) == \A j \in WindowIndices(i) : series[j + 1] <= series[i + 1]

IsWindowMin(i) == \A j \in WindowIndices(i) : series[j + 1] >= series[i + 1]

\* C27: index i is reported as a peak iff order <= i < len - order and its
\* value is the maximum of the window [i - order, i + order], and as a trough
\* iff it is in that range, its value is the window's minimum and it is no
\* peak; no index is reported as both, none within order of either end, and
\* a series of length <= 2 * order yields two empty lists.  Each list is in
\* index order, reports an index once and pairs it with its value.
C27_PeaksAndTroughs ==
    ext_pc = "done" =>
        LET peaks == Reported(extremes.peaks)
            troughs == Reported(extremes.troughs)
        IN  /\ \A i \in -1..Len(series) :
                  /\ i \in peaks <=> (InRange(i) /\ IsWindowMax(i))
                  /\ i \in troughs <=> (InRange(i) /\ IsWindowMin(i) /\ i \notin peaks)
            /\ peaks \cup troughs \subseteq 0..(Len(series) - 1)
            /\ peaks \cap troughs = {}
            /\ \A i \in peaks \cup troughs : i >= ext_order /\ i <= Len(series) - 1 - ext_order
            /\ Len(series) <= 2 * ext_order => extremes = NoExtremes
            /\ \A q \in {extremes.peaks, extremes.troughs} :
                  /\ \A k \in DOMAIN q : q[k][2] = series[q[k][1] + 1]
                  /\ \A k \in 1..(Len(q) - 1) : q[k][1] < q[k + 1][1]

\* C27 witness: order 1 on a series with a plateau: the flat stretch in the
\* middle is reported as peaks only, although each of its values is also the
\* smallest of a window, and a trough is reported next to it
C27_Witness ==
    /\ ext_pc = "done" /\ ext_order = 1
    /\ series = <<300, 100, 100, 100, 200>>
    /\ extremes.peaks = << <<2, 100>> >>
    /\ extremes.troughs = << <<1, 100>>, <<3, 100>> >>

(***************************************************************************)
(* The batch fetches get_multiple_quotes and get_multiple_premarket of the *)
(* two providers: one loop over the tickers, one step per ticker.  A       *)
(* single fetch returns a record or raises an exception of some class, and *)
(* "except Exception" catches the classes derived from Exception: an       *)
(* interrupt of the process (KeyboardInterrupt), sys.exit() (SystemExit)   *)
(* and the cancellation of an asyncio task are not among them.             *)
(***************************************************************************)
MaxBatch == 3

BatchCalls ==
    {<<p, m>> : p \in {"yahoo", "massive"}, m \in {"get_multiple_quotes", "get_multiple_premarket"}}

\* The classes a single fetch raises here: a TypeError of the provider's own
\* code, a ConnectionError of the network, the HTTPError of an HTTP library,
\* the two CancelledError classes that MassiveProvider._run can let through
\* (of pool.submit(...).result() and of asyncio.run), and the two ways the
\* process is told to stop
FetchExceptions ==
    {TypeError, ConnectionError, HTTPError, FuturesCancelledError, CancelledError,
     KeyboardInterrupt, SystemExit}

\* What one call of get_quote / get_premarket(ticker) does
FetchOutcomes(ticker) ==
    {[k |-> "record", ticker |-> ticker, price |-> x] : x \in {10, 20}}
    \cup {[k |-> "raised", ticker |-> ticker, exception |-> x] : x \in FetchExceptions}

InitBatch ==
    /\ ExtremeIdle
    /\ PremarketIdle
    /\ ProfileIdle
    /\ LevelIdle
    /\ WatchIdle
    /\ ProviderIdle
    /\ CacheIdle
    /\ ScoreIdle
    /\ RankIdle
    /\ ScanIdle
    /\ PivotIdle
    /\ ClusterIdle
    /\ FilterIdle
    /\ batch_call \in BatchCalls
    /\ batch_tickers \in SeqsUpTo({"AAA", "BBB"}, MaxBatch)
    /\ \E fs \in SeqsUpTo(UNION {FetchOutcomes(t) : t \in {"AAA", "BBB"}}, MaxBatch) :
          /\ Len(fs) = Len(batch_tickers)
          /\ \A i \in DOMAIN fs : fs[i].ticker = batch_tickers[i]
          /\ batch_fetches = fs
    /\ batch_i = 0
    /\ batch_visited = <<>>
    /\ batch_results = <<>>
    /\ batch_pc = "loop"

\* A mutant of BatchFetch: the except clause names one class only
BatchFetchExceptValueError ==
    /\ batch_pc = "loop"
    /\ batch_i < Len(batch_tickers)
    /\ batch_i' = batch_i + 1
    /\ batch_visited' = Append(batch_visited, batch_tickers[batch_i'])
    /\ LET f == batch_fetches[batch_i']
       IN  IF f.k = "record"
           THEN batch_results' = Append(batch_results, f) /\ batch_pc' = "loop"
           ELSE IF IsSubclass(f.exception, "builtins.ValueError")
           THEN UNCHANGED batch_results /\ batch_pc' = "loop"
           ELSE UNCHANGED batch_results /\ batch_pc' = "raised"
    /\ UNCHANGED <<scoreVars, pivotVars, clusterVars, filterVars, rankVars, scanVars, cacheVars, providerVars, watchVars, levelVars, profileVars, premarketVars, extremeVars, batch_call, batch_tickers, batch_fetches>>

\* One turn of "for ticker in tickers": try: results.append(self.get_...(ticker))
\* except Exception: logger.warning(...)
BatchFetch ==
    /\ batch_pc = "loop"
    /\ batch_i < Len(batch_tickers)
    /\ batch_i' = batch_i + 1
    /\ batch_visited' = Append(batch_visited, batch_tickers[batch_i'])
    /\ LET f == batch_fetches[batch_i']
       IN  IF f.k = "record"
           THEN batch_results' = Append(batch_results, f) /\ batch_pc' = "loop"
           ELSE IF IsException(f.exception)
           THEN UNCHANGED batch_results /\ batch_pc' = "loop"
           ELSE UNCHANGED batch_results /\ batch_pc' = "raised"
    /\ UNCHANGED <<scoreVars, pivotVars, clusterVars, filterVars, rankVars, scanVars, cacheVars, providerVars, watchVars, levelVars, profileVars, premarketVars, extremeVars, batch_call, batch_tickers, batch_fetches>>

\* return results, the loop exhausted
BatchReturn ==
    /\ batch_pc = "loop"
    /\ batch_i = Len(batch_tickers)
    /\ batch_pc' = "returned"
    /\ UNCHANGED <<scoreVars, pivotVars, clusterVars, filterVars, rankVars, scanVars, cacheVars, providerVars, watchVars, levelVars, profileVars, premarketVars, extremeVars, batch_call, batch_tickers, batch_fetches, batch_i, batch_visited, batch_results>>

NextBatch == BatchFetch \/ BatchReturn

SpecBatch == InitBatch /\ [][NextBatch]_vars

\* The fetches among the first n that returned a record, in input order
RECURSIVE RecordsOf(_, _)
RecordsOf(fs, n) ==
    IF n = 0 THEN <<>>
    ELSE IF fs[n].k = "record" THEN Append(RecordsOf(fs, n - 1), fs[n])
    ELSE RecordsOf(fs, n - 1)

\* C30: a batch fetch never raises for a per-ticker failure (a TypeError, a
\* ConnectionError, an HTTPError or the CancelledError of a future raised by
\* the single fetch; only a KeyboardInterrupt, a SystemExit or the
\* CancelledError of asyncio leaves the loop); it calls the single
\* fetch for every ticker of the input exactly once, in input order, and the
\* list it returns holds one record for each ticker whose fetch did not
\* raise, in input order.
C30_BatchVisitsAllKeepsOrder ==
    /\ batch_pc = "raised" =>
          /\ batch_fetches[batch_i].k = "raised"
          /\ ClassName(batch_fetches[batch_i].exception) \in NotExceptions
    /\ batch_visited = SubSeq(batch_tickers, 1, batch_i)
    /\ batch_pc = "returned" =>
          /\ batch_visited = batch_tickers
          /\ batch_results = RecordsOf(batch_fetches, Len(batch_fetches))
          /\ batch_results = get_multiple_premarket([i \in DOMAIN batch_fetches |->
                                [ok |-> batch_fetches[i].k = "record", record |-> batch_fetches[i]]])

\* C30 witness: three tickers, one of them twice; the fetch of the second
\* raised a ConnectionError, the call returned the records of the first and
\* the third
C30_Witness ==
    /\ batch_pc = "returned"
    /\ batch_tickers = <<"AAA", "BBB", "AAA">>
    /\ batch_fetches[2].k = "raised" /\ batch_fetches[2].exception = ConnectionError
    /\ Len(batch_results) = 2
    /\ batch_results[1].price = 10 /\ batch_results[2].price = 20

=============================================================================
